---- MODULE Spec2Model ----
(***************************************************************************)
(* Model of the DICOM -> BIDS conversion driver of dcm-brno                *)
(* (01_data_conversion_scripts/01b_dcm2bids_wrapper.py, main).             *)
(*                                                                         *)
(* Strings are sequences of one-character strings, a path is a sequence of *)
(* path components, the file system is the set of paths that exist.  The   *)
(* external converter (dcm2bids, run through os.system) and the operator   *)
(* who may interrupt a run are the environment.                            *)
(***************************************************************************)
EXTENDS Integers, Sequences, FiniteSets

\* ---------------------------------------------------------------- bounds
MaxRows == 2
MaxRuns == 2

\* ---------------------------------------------------------------- inputs
\* Values of the cells of the column 'FUP MR mereni B provedeno (ano/ne)':
\* the affirmative token, the negative token, another casing, an empty cell.
FlagValues == {"ano", "ne", "Ano", "NaN"}

\* Session codes found in the columns 'MR B1' and 'MR B2'.
Codes == { <<"1", "A">>, <<"2", "B">> }

\* The columns read_xlsx_file asks for: the follow-up flag, 'MR B1', 'MR B2'.
columns_to_read == {"FUP MR mereni B provedeno (ano/ne)", "MR B1", "MR B2"}

\* The header rows a sheet may have: any of those columns may be absent.
Headers == SUBSET columns_to_read

\* Mutant: a reader that fills an absent column with empty cells.
read_xlsx_file_lenient(header) == FALSE

\* pd.read_excel(usecols=columns_to_read) raises ValueError when a column it is
\* asked for is not in the header
read_xlsx_file_raises(header) == ~(columns_to_read \subseteq header)

\* Roster rows.  Kept rows: a subject with two different codes and a subject whose
\* two cells hold the same code.  The codes of a row that is not kept are never read.
Rows ==
  { r \in [flag : FlagValues, b1 : Codes, b2 : Codes] :
      r.b1 = <<"1", "A">> /\ (r.flag = "ano" \/ r.b2 = <<"2", "B">>) }

RECURSIVE SeqsUpTo(_, _)
SeqsUpTo(S, n) ==
  IF n = 0 THEN { <<>> }
  ELSE LET shorter == SeqsUpTo(S, n - 1)
       IN  shorter \cup { Append(s, x) : s \in { t \in shorter : Len(t) = n - 1 }, x \in S }

Rosters == SeqsUpTo(Rows, MaxRows)

\* ---------------------------------------------------------------- paths
\* -path-out, -path-in and -dcm2bids-config after os.path.abspath
bids_folder == << <<"d", "a", "t", "a">> >>
dicom_folder_path == bids_folder \o << <<"s", "o", "u", "r", "c", "e", "d", "a", "t", "a">> >>
config_path == << <<"c", "f", "g">>, <<"c", ".", "j", "s", "o", "n">> >>

\* the name of the log file, and the folders main may be started from: the BIDS
\* folder or the folder of the config file
fname_log == <<"d", "c", "m", "2", "b", "i", "d", "s", ".", "l", "o", "g">>
WorkingDirs == { bids_folder, << <<"c", "f", "g">> >> }

\* os.path.join(base, a) and os.path.join(base, a, b), no component absolute
Join2(base, a) == Append(base, a)
Join3(base, a, b) == Append(Append(base, a), b)

\* the path and all its ancestors (what mkdir -p brings into existence)
WithParents(p) == { SubSeq(p, 1, n) : n \in 1..Len(p) }

\* 'sub-' + x and 'ses-' + x
Sub(x) == <<"s", "u", "b", "-">> \o x
Ses(x) == <<"s", "e", "s", "-">> \o x

\* Mutant: the subject is named by the code of its first session alone.
subject_id_first(source_id_ses_01, source_id_ses_02) == source_id_ses_01

\* Mutant: the two codes are joined in the wrong order.
subject_id_swapped(source_id_ses_01, source_id_ses_02) == source_id_ses_02 \o source_id_ses_01

\* subject_id = source_id_ses_01 + source_id_ses_02
subject_id(source_id_ses_01, source_id_ses_02) == source_id_ses_01 \o source_id_ses_02

\* Mutant: the 'sub-' prefix of the source folder is forgotten.
sub_dicom_folder_path_bare(source_id) == Join2(dicom_folder_path, source_id)

\* the source folder of a session: os.path.join(dicom_folder_path, 'sub-' + code)
sub_dicom_folder_path(source_id) == Join2(dicom_folder_path, Sub(source_id))

\* Mutant: the session is looked for under the folder of its own code, not under
\* the folder of the composite subject id.
bids_session_path_own(subj, source_id) == Join3(bids_folder, Sub(source_id), Ses(source_id))

\* Mutant: the skip check looks for the 'anat' folder inside the session folder.
bids_session_path_anat(subj, source_id) ==
  Append(Join3(bids_folder, Sub(subj), Ses(source_id)), <<"a", "n", "a", "t">>)

\* the folder tested by the skip check:
\* os.path.join(bids_folder, 'sub-' + subject_id, 'ses-' + code)
bids_session_path(subj, source_id) == Join3(bids_folder, Sub(subj), Ses(source_id))

\* the two tests of a session: os.path.exists of its dicom folder and of its
\* folder in the BIDS tree, in the file system f
SourceInDicom(f, source_id) == sub_dicom_folder_path(source_id) \in f
\* Mutant: the skip check looks for a file of that name, which a folder never is.
SessionInBidsAsFile(f, subj, source_id) == FALSE
SessionInBids(f, subj, source_id) == bids_session_path(subj, source_id) \in f

\* Mutant: the flag is compared without regard to case.
KeepRowAnyCase(r) == r.flag \in {"ano", "Ano", "ANO"}

\* the row filter: subject_df[...] == 'ano'
KeepRow(r) == r.flag = "ano"

\* Mutant: a converter that fails raises, as subprocess.run(check=True) would.
PcAfterSystemChecked(status) == IF status = "ok" THEN "examine" ELSE "crashed"

\* where main goes on after os.system returned status: its value is dropped
PcAfterSystem(status) == "examine"

\* Mutant: the two blocks of the loop body read each other's column.
SourceIdSwapped(r, s) == IF s = 1 THEN r.b2 ELSE r.b1

\* the code of session s (1 or 2) of a row
SourceId(r, s) == IF s = 1 THEN r.b1 ELSE r.b2

\* ------------------------------------------------------- the command line
\* Mutant: the session label of session 1 is passed without its 'ses-' prefix.
Command1BareSession(d, subj, source_id) ==
  << [flag |-> "-d", path |-> d,           label |-> <<>>],
     [flag |-> "-p", path |-> <<>>,        label |-> Sub(subj)],
     [flag |-> "-s", path |-> <<>>,        label |-> source_id],
     [flag |-> "-o", path |-> bids_folder, label |-> <<>>],
     [flag |-> "-c", path |-> config_path, label |-> <<>>] >>

\* The shell command of session 1 (short flags) as the words after 'dcm2bids'.
Command1(d, subj, source_id) ==
  << [flag |-> "-d", path |-> d,           label |-> <<>>],
     [flag |-> "-p", path |-> <<>>,        label |-> Sub(subj)],
     [flag |-> "-s", path |-> <<>>,        label |-> Ses(source_id)],
     [flag |-> "-o", path |-> bids_folder, label |-> <<>>],
     [flag |-> "-c", path |-> config_path, label |-> <<>>] >>

\* Mutant: the block of session 2 names the participant by the session's own code.
Command2OwnCode(d, subj, source_id) ==
  << [flag |-> "--dicom_dir",   path |-> d,           label |-> <<>>],
     [flag |-> "--participant", path |-> <<>>,        label |-> Sub(source_id)],
     [flag |-> "--session",     path |-> <<>>,        label |-> Ses(source_id)],
     [flag |-> "--output_dir",  path |-> bids_folder, label |-> <<>>],
     [flag |-> "--config",      path |-> config_path, label |-> <<>>] >>

\* The shell command of session 2 (long flags).
Command2(d, subj, source_id) ==
  << [flag |-> "--dicom_dir",   path |-> d,           label |-> <<>>],
     [flag |-> "--participant", path |-> <<>>,        label |-> Sub(subj)],
     [flag |-> "--session",     path |-> <<>>,        label |-> Ses(source_id)],
     [flag |-> "--output_dir",  path |-> bids_folder, label |-> <<>>],
     [flag |-> "--config",      path |-> config_path, label |-> <<>>] >>

Command(s, d, subj, source_id) ==
  IF s = 1 THEN Command1(d, subj, source_id) ELSE Command2(d, subj, source_id)

\* What the converter reads from its command line: the value of an option given
\* in its short or its long form.
Option(cmd, short, long) ==
  LET i == CHOOSE k \in DOMAIN cmd : cmd[k].flag \in {short, long} IN cmd[i]

ArgDicomDir(cmd)    == Option(cmd, "-d", "--dicom_dir").path
ArgParticipant(cmd) == Option(cmd, "-p", "--participant").label
ArgSession(cmd)     == Option(cmd, "-s", "--session").label
ArgOutputDir(cmd)   == Option(cmd, "-o", "--output_dir").path
ArgConfig(cmd)      == Option(cmd, "-c", "--config").path

\* The folder the converter fills: <output_dir>/<participant>/<session>.
ConverterOutput(cmd) == Join3(ArgOutputDir(cmd), ArgParticipant(cmd), ArgSession(cmd))

\* ---------------------------------------------------------------- state
VARIABLES
  roster,       \* the rows of the sheet, in row order
  fs,           \* the paths that exist
  pc,           \* "idle", "examine", "converting", "done", "interrupted", "aborted"
  subject_df,   \* the kept rows, as indices into roster, in row order
  idx,          \* position of the loop in subject_df
  slot,         \* the session of the row being handled, 1 or 2
  command,      \* the command handed to os.system, <<>> when none runs
  log,          \* the records emitted by the current run
  invocations,  \* the converter invocations of the current run
  exitStatus,   \* exit status of the last run, -1 while none has ended
  runs,         \* number of runs started
  cwd,          \* the working directory main is started from
  logFile,      \* the records the current run has written to dcm2bids.log of the BIDS folder
  staleLog,     \* whether that file holds, before them, records of earlier runs
  checked,      \* the path last tested by the skip check, <<>> when none was
  completed,    \* history: the output folders of the conversions that ran to a good end
  startFs,      \* history: the paths that existed when the current run started
  prevRun,      \* history: how the run before the current one went
  columns       \* the column names in the header row of the sheet

\* State outside the driver's run: the jobs of the loop body taken in any order, and
\* the filename parsers of the plotting scripts.
VARIABLES
  phase,          \* of each job taken out of the loop: "todo", "checked", "done"
  started,        \* the jobs for which the converter was started
  convertible,    \* the session codes whose dicom folder the converter can convert
  filename_path,  \* the argument of a parser
  parsed          \* what the parser returned or raised

\* State of the utilities beside the driver: the figure loop of
\* 02a_loop_across_subjects_to_generate_figure.py, the copy of
\* 00a_copy_source_subjects.py and update_config_file.py.  Each is looked at in a
\* specification of its own, and they share the variables of a run.
VARIABLES
  args,           \* the inputs of the utility: its arguments and the tables it reads
  stage,          \* where its run stands: "idle", "loop", "subprocess", "verify",
                  \* "done", "raised"
  queue,          \* the sequence its loop goes through
  cursor,         \* the position of the loop in it
  calls,          \* the external calls of the current run, in order
  records,        \* the records the current run has logged
  passes,         \* number of runs started
  earlier,        \* history: what the runs before the current one left
  json_file       \* the JSON config file

\* the variables of the driver's run alone, and the variables outside it
driverVars == << pc, subject_df, idx, slot, command, log, invocations, exitStatus, runs,
                 cwd, logFile, staleLog, checked, completed, prevRun, columns >>
asideVars == << phase, started, convertible, filename_path, parsed >>
toolVars == << args, stage, queue, cursor, calls, records, passes, earlier, json_file >>

vars == << roster, fs, startFs, driverVars, asideVars, toolVars >>

\* no parser has been called
NoResult ==
  [fn |-> "none", raised |-> FALSE, participant_id |-> <<>>, session_id |-> <<>>,
   session |-> ""]

\* the state of the driver while no run of it is looked at
DriverIdle ==
  /\ pc = "idle"
  /\ subject_df = <<>>
  /\ idx = 1
  /\ slot = 1
  /\ command = <<>>
  /\ log = <<>>
  /\ invocations = <<>>
  /\ exitStatus = -1
  /\ runs = 0
  /\ logFile = <<>>
  /\ staleLog = FALSE
  /\ checked = <<>>
  /\ prevRun = [ended |-> "none", startFs |-> {}, launched |-> {}, completed |-> {}]

\* the state outside the driver while the driver's run is looked at
AsideIdle ==
  /\ phase = <<>>
  /\ started = {}
  /\ convertible = {}
  /\ filename_path = <<>>
  /\ parsed = NoResult

\* no JSON config file is looked at
NoJsonFile == [exists |-> FALSE, indent |-> 0, members |-> <<>>]

\* no run of a utility has started
RunIdle ==
  /\ stage = "idle"
  /\ queue = <<>>
  /\ cursor = 1
  /\ calls = <<>>
  /\ records = <<>>
  /\ passes = 0
  /\ earlier = {}

\* the state of the utilities while none of them is looked at
ToolsIdle ==
  /\ args = <<>>
  /\ RunIdle
  /\ json_file = NoJsonFile

\* a record logged by a utility
Logged(msg, text) == [msg |-> msg, text |-> text]

\* the output folders of the conversions a run has launched and seen end
Launched(invs) == { ConverterOutput(invs[k].command) : k \in DOMAIN invs }

\* log records
Record(msg, subject, path, n, at) ==
  [msg |-> msg, subject |-> subject, path |-> path, n |-> n, at |-> at]

\* Mutant: the file handler opens the file anew for every record.
EmitOverwriting(rec) ==
  /\ log' = Append(log, rec)
  /\ logFile' = << rec >>

\* logger.info(...): the record goes to the console and, once the file handler is
\* attached, to the log file
Emit(rec) ==
  /\ log' = Append(log, rec)
  /\ logFile' = Append(logFile, rec)

\* the kept rows of a roster
Filter(rs) == SelectSeq([i \in DOMAIN rs |-> i], LAMBDA i : KeepRow(rs[i]))

\* the BIDS folders of the sessions of a roster whose dicom folder is not among
\* those present: sessions converted before their dicom folders were removed
Destinations(rs, present) ==
  { bids_session_path(subject_id(rs[at[1]].b1, rs[at[1]].b2), SourceId(rs[at[1]], at[2])) :
      at \in { x \in (DOMAIN rs) \X {1, 2} :
                 KeepRow(rs[x[1]]) /\ SourceId(rs[x[1]], x[2]) \notin present } }

Init ==
  /\ roster \in Rosters
  /\ \E present \in SUBSET Codes : \E pre \in SUBSET Destinations(roster, present) :
       /\ fs = WithParents(dicom_folder_path)
               \cup { sub_dicom_folder_path(c) : c \in present }
               \cup UNION { WithParents(p) : p \in pre }
       /\ completed = pre
  /\ DriverIdle
  /\ cwd \in WorkingDirs
  /\ startFs = fs
  /\ columns \in Headers
  /\ AsideIdle
  /\ ToolsIdle

\* ---------------------------------------------------------------- the run
\* Lines 63-91: arguments, the roster, the filter, the count, then the log file: a
\* file dcm2bids.log of the working directory is removed, and the file dcm2bids.log
\* of the BIDS folder is opened for appending.
StartRun ==
  /\ pc \in {"idle", "done", "interrupted", "aborted"}
  /\ runs < MaxRuns
  /\ ~read_xlsx_file_raises(columns)
  /\ runs' = runs + 1
  /\ subject_df' = Filter(roster)
  /\ log' = << Record("Number of subjects", <<>>, <<>>, Len(subject_df'), <<0, 0>>) >>
  /\ logFile' = <<>>
  /\ staleLog' = IF cwd = bids_folder THEN FALSE ELSE (staleLog \/ logFile # <<>>)
  /\ fs' = (fs \ { Join2(cwd, fname_log) }) \cup { Join2(bids_folder, fname_log) }
  /\ invocations' = <<>>
  /\ idx' = 1
  /\ slot' = 1
  /\ pc' = "examine"
  /\ exitStatus' = -1
  /\ checked' = <<>>
  /\ startFs' = fs'
  /\ prevRun' = [ended |-> pc, startFs |-> startFs, launched |-> Launched(invocations),
                 completed |-> completed]
  /\ UNCHANGED << roster, command, cwd, completed, columns >>
  /\ UNCHANGED << asideVars, toolVars >>

\* Line 78: read_xlsx_file raises, nothing catches it, and the process ends with
\* a traceback and exit status 1 before the filter, the count and the log file.
ReadXlsxRaises ==
  /\ pc \in {"idle", "done", "interrupted", "aborted"}
  /\ runs < MaxRuns
  /\ read_xlsx_file_raises(columns)
  /\ runs' = runs + 1
  /\ pc' = "aborted"
  /\ exitStatus' = 1
  /\ UNCHANGED << roster, fs, subject_df, idx, slot, command, log, invocations, cwd,
                  logFile, staleLog, checked, completed, startFs, prevRun, columns >>
  /\ UNCHANGED << asideVars, toolVars >>

\* the row of the loop and the job at hand
CurRow == roster[subject_df[idx]]
CurAt == << subject_df[idx], slot >>
CurSource == SourceId(CurRow, slot)
CurSubject == subject_id(CurRow.b1, CurRow.b2)

\* after a slot: session 2 of the same row, or session 1 of the next row
Advance ==
  /\ slot' = IF slot = 1 THEN 2 ELSE 1
  /\ idx' = IF slot = 1 THEN idx ELSE idx + 1

InLoop == pc = "examine" /\ idx <= Len(subject_df)

\* Mutant: a session without dicom folder ends the handling of its row.
MissingSourceContinue ==
  /\ InLoop
  /\ ~SourceInDicom(fs, CurSource)
  /\ Emit(Record("does not exist in", CurSource, dicom_folder_path, 0, CurAt))
  /\ slot' = 1
  /\ idx' = idx + 1
  /\ UNCHANGED << roster, fs, pc, subject_df, command, invocations, exitStatus, runs,
                  cwd, staleLog, checked, completed, startFs, prevRun, columns >>
  /\ UNCHANGED << asideVars, toolVars >>

\* Mutant: a session without dicom folder gets an empty one made for it.
MissingSourceMakesFolder ==
  /\ InLoop
  /\ ~SourceInDicom(fs, CurSource)
  /\ Emit(Record("does not exist in", CurSource, dicom_folder_path, 0, CurAt))
  /\ fs' = fs \cup { sub_dicom_folder_path(CurSource) }
  /\ Advance
  /\ UNCHANGED << roster, pc, subject_df, command, invocations, exitStatus, runs,
                  cwd, staleLog, checked, completed, startFs, prevRun, columns >>
  /\ UNCHANGED << asideVars, toolVars >>

\* Lines 123-124, 149-150: the dicom folder of the session is absent.
MissingSource ==
  /\ InLoop
  /\ ~SourceInDicom(fs, CurSource)
  /\ Emit(Record("does not exist in", CurSource, dicom_folder_path, 0, CurAt))
  /\ Advance
  /\ UNCHANGED << roster, fs, pc, subject_df, command, invocations, exitStatus, runs,
                  cwd, staleLog, checked, completed, startFs, prevRun, columns >>
  /\ UNCHANGED << asideVars, toolVars >>

\* Lines 121-122, 147-148: the session is already in the BIDS folder.
AlreadyExists ==
  /\ InLoop
  /\ SourceInDicom(fs, CurSource)
  /\ SessionInBids(fs, CurSubject, CurSource)
  /\ checked' = bids_session_path(CurSubject, CurSource)
  /\ Emit(Record("already exists in", CurSource, bids_folder, 0, CurAt))
  /\ Advance
  /\ UNCHANGED << roster, fs, pc, subject_df, command, invocations, exitStatus, runs,
                  cwd, staleLog, completed, startFs, prevRun, columns >>
  /\ UNCHANGED << asideVars, toolVars >>

\* Lines 106-120, 131-146: the command is built, logged and handed to os.system.
RunDcm2bids ==
  /\ InLoop
  /\ SourceInDicom(fs, CurSource)
  /\ ~SessionInBids(fs, CurSubject, CurSource)
  /\ command' = Command(slot, sub_dicom_folder_path(CurSource), CurSubject, CurSource)
  /\ Emit(Record("Running dcm2bids for", <<>>, sub_dicom_folder_path(CurSource), 0, CurAt))
  /\ checked' = bids_session_path(CurSubject, CurSource)
  /\ pc' = "converting"
  /\ UNCHANGED << roster, fs, subject_df, idx, slot, invocations, exitStatus, runs,
                  cwd, staleLog, completed, startFs, prevRun, columns >>
  /\ UNCHANGED << asideVars, toolVars >>

Invocation(status) ==
  [at |-> CurAt, command |-> command, status |-> status]

\* Mutant: a conversion that failed is tried again: the loop stays at its slot.
ConverterExitsRetrying ==
  /\ pc = "converting"
  /\ \E status \in {"ok", "failed"}, made \in BOOLEAN :
       /\ status = "ok" => made
       /\ fs' = IF made THEN fs \cup WithParents(ConverterOutput(command)) ELSE fs
       /\ invocations' = Append(invocations, Invocation(status))
       /\ completed' = IF status = "ok" THEN completed \cup {ConverterOutput(command)}
                        ELSE completed
       /\ pc' = "examine"
       /\ exitStatus' = exitStatus
       /\ IF status = "ok" THEN Advance ELSE UNCHANGED << idx, slot >>
  /\ command' = <<>>
  /\ UNCHANGED << roster, subject_df, log, runs, cwd, logFile, staleLog, checked, startFs,
                  prevRun, columns >>
  /\ UNCHANGED << asideVars, toolVars >>

\* os.system returns: the converter ended, well or not, and its exit status is dropped.
\* A converter that fails may or may not have made its output folder before.
ConverterExits ==
  /\ pc = "converting"
  /\ \E status \in {"ok", "failed"}, made \in BOOLEAN :
       /\ status = "ok" => made
       /\ fs' = IF made THEN fs \cup WithParents(ConverterOutput(command)) ELSE fs
       /\ invocations' = Append(invocations, Invocation(status))
       /\ completed' = IF status = "ok" THEN completed \cup {ConverterOutput(command)}
                        ELSE completed
       /\ pc' = PcAfterSystem(status)
       /\ exitStatus' = IF pc' = "examine" THEN exitStatus ELSE 1
  /\ command' = <<>>
  /\ Advance
  /\ UNCHANGED << roster, subject_df, log, runs, cwd, logFile, staleLog, checked, startFs,
                  prevRun, columns >>
  /\ UNCHANGED << asideVars, toolVars >>

\* The end of the loop and of main: the process exits with status 0.
FinishRun ==
  /\ pc = "examine"
  /\ idx > Len(subject_df)
  /\ pc' = "done"
  /\ exitStatus' = 0
  /\ UNCHANGED << roster, fs, subject_df, idx, slot, command, log, invocations, runs,
                  cwd, logFile, staleLog, checked, completed, startFs, prevRun, columns >>
  /\ UNCHANGED << asideVars, toolVars >>

\* The run is killed from outside, between two steps or while the converter runs;
\* a converter killed with it may or may not have made its output folder.
Interrupt ==
  /\ pc \in {"examine", "converting"}
  /\ \E made \in BOOLEAN :
       /\ made => pc = "converting"
       /\ fs' = IF made THEN fs \cup WithParents(ConverterOutput(command)) ELSE fs
  /\ invocations' = IF pc = "converting"
                    THEN Append(invocations, Invocation("killed")) ELSE invocations
  /\ command' = <<>>
  /\ pc' = "interrupted"
  /\ exitStatus' = 1
  /\ UNCHANGED << roster, subject_df, idx, slot, log, runs, cwd, logFile, staleLog, checked,
                  completed, startFs, prevRun, columns >>
  /\ UNCHANGED << asideVars, toolVars >>

Next ==
  \/ StartRun
  \/ ReadXlsxRaises
  \/ MissingSource
  \/ AlreadyExists
  \/ RunDcm2bids
  \/ ConverterExits
  \/ FinishRun
  \/ Interrupt

Spec == Init /\ [][Next]_vars

\* ------------------------------------------- the jobs of the loop in any order
\* The two blocks of the loop body (lines 101-124 and 126-150), one job per kept
\* row and session, taken out of the loop: a job tests its dicom folder and its
\* BIDS folder, and when it must convert it builds its command and runs the
\* converter.  Jobs are taken in any order, and the tests of one job may fall
\* between the tests and the conversion of another.

\* a third session code, and rosters with rows that share a code or a subject
ThirdCode == <<"3", "C">>
PoolRows ==
  { [flag |-> "ano", b1 |-> <<"1", "A">>, b2 |-> <<"2", "B">>],
    [flag |-> "ano", b1 |-> <<"1", "A">>, b2 |-> ThirdCode],
    [flag |-> "ano", b1 |-> <<"1", "A">>, b2 |-> <<"1", "A">>],
    [flag |-> "ne",  b1 |-> <<"1", "A">>, b2 |-> <<"2", "B">>] }
PoolRosters == SeqsUpTo(PoolRows, MaxRows)

\* the jobs of a roster in the order of the loop
RECURSIVE JobsInOrder(_, _)
JobsInOrder(rs, kept) ==
  IF kept = <<>> THEN <<>>
  ELSE << << Head(kept), 1 >>, << Head(kept), 2 >> >> \o JobsInOrder(rs, Tail(kept))

JobSource(rs, at) == SourceId(rs[at[1]], at[2])
JobSubject(rs, at) == subject_id(rs[at[1]].b1, rs[at[1]].b2)
JobCommand(rs, at) ==
  Command(at[2], sub_dicom_folder_path(JobSource(rs, at)), JobSubject(rs, at), JobSource(rs, at))

\* the two tests of a job in the file system f: does it start the converter
JobConverts(rs, at, f) ==
  /\ SourceInDicom(f, JobSource(rs, at))
  /\ ~SessionInBids(f, JobSubject(rs, at), JobSource(rs, at))

\* the file system after the converter ran the command of a job: a dicom folder it
\* can convert gives the output folder, another one gives nothing
AfterConverter(rs, at, f, good) ==
  IF JobSource(rs, at) \in good THEN f \cup WithParents(ConverterOutput(JobCommand(rs, at)))
  ELSE f

\* the loop of main over the jobs q from the file system f: the file system at its
\* end and the jobs it started the converter for
RECURSIVE Sequential(_, _, _, _, _)
Sequential(rs, q, f, good, begun) ==
  IF q = <<>> THEN [fs |-> f, started |-> begun]
  ELSE IF JobConverts(rs, Head(q), f)
       THEN Sequential(rs, Tail(q), AfterConverter(rs, Head(q), f, good), good,
                       begun \cup {Head(q)})
       ELSE Sequential(rs, Tail(q), f, good, begun)

PoolInit ==
  /\ roster \in PoolRosters
  /\ \E present \in SUBSET (Codes \cup {ThirdCode}) :
       \E pre \in SUBSET { bids_session_path(JobSubject(roster, at), JobSource(roster, at)) :
                             at \in { x \in (DOMAIN roster) \X {1, 2} : x[1] = 1 } } :
         /\ fs = WithParents(dicom_folder_path)
                 \cup { sub_dicom_folder_path(c) : c \in present }
                 \cup UNION { WithParents(d) : d \in pre }
         /\ convertible \in SUBSET present
         /\ completed = pre
  /\ startFs = fs
  /\ phase = [at \in { x \in (DOMAIN roster) \X {1, 2} : KeepRow(roster[x[1]]) } |-> "todo"]
  /\ started = {}
  /\ DriverIdle
  /\ cwd = bids_folder
  /\ columns = columns_to_read
  /\ filename_path = <<>>
  /\ parsed = NoResult
  /\ ToolsIdle

\* Lines 104-106, 129-131 of a job: the tests; a job that must convert has built
\* its command and is about to call os.system.
JobChecks(at) ==
  /\ phase[at] = "todo"
  /\ IF JobConverts(roster, at, fs)
     THEN /\ phase' = [phase EXCEPT ![at] = "checked"]
          /\ started' = started \cup {at}
     ELSE /\ phase' = [phase EXCEPT ![at] = "done"]
          /\ started' = started
  /\ UNCHANGED << roster, fs, startFs, driverVars, convertible, filename_path, parsed,
                  toolVars >>

\* Lines 120, 146 of a job: os.system runs the converter to its end.
JobConverted(at) ==
  /\ phase[at] = "checked"
  /\ fs' = AfterConverter(roster, at, fs, convertible)
  /\ phase' = [phase EXCEPT ![at] = "done"]
  /\ UNCHANGED << roster, startFs, driverVars, started, convertible, filename_path, parsed,
                  toolVars >>

PoolNext ==
  \/ \E at \in DOMAIN phase : JobChecks(at)
  \/ \E at \in DOMAIN phase : JobConverted(at)

PoolSpec == PoolInit /\ [][PoolNext]_vars

\* ------------------------------------------------------ the filename parsers
\* fetch_subject_and_session of 02b_generate_figures_PAM50_two_sessions.py and
\* fetch_participant_and_session of utils.py.  A filename or path is the sequence
\* of its characters.

\* The pieces filenames and paths are made of here: participant folders (two
\* different five-character codes, a single code, the same code twice), session
\* folders (either code, a code of neither), the rest of a file name.
Pieces ==
  { <<"s", "u", "b", "-", "1", "8", "6", "0", "B", "6", "4", "7", "2", "B">>,
    <<"s", "u", "b", "-", "A", "B", "C", "D", "E">>,
    <<"s", "u", "b", "-", "1", "8", "6", "0", "B", "1", "8", "6", "0", "B">>,
    <<"s", "e", "s", "-", "1", "8", "6", "0", "B">>,
    <<"s", "e", "s", "-", "6", "4", "7", "2", "B">>,
    <<"s", "e", "s", "-", "1", "2", "3", "4", "5">>,
    <<"T", "1", "w", ".", "n", "i", "i", ".", "g", "z">> }

\* what may follow a piece: an underscore, a slash, or nothing
Glue == { <<"_">>, <<"/">>, <<>> }

\* the longest input, in pieces
MaxPieces == 3

RECURSIVE Filenames(_)
Filenames(n) ==
  IF n = 0 THEN { <<>> }
  ELSE LET shorter == Filenames(n - 1)
       IN  shorter \cup { f \o x \o g : f \in shorter, x \in Pieces, g \in Glue }

\* pattern at position i of s: the literal characters of pre
LiteralAt(s, pre, i) ==
  /\ i + Len(pre) - 1 <= Len(s)
  /\ SubSeq(s, i, i + Len(pre) - 1) = pre

\* Mutant: '(.*)' instead of '(.*?)': the position of the last underscore or slash
\* at or after k that '.' can reach, 0 when there is none.
RECURSIVE MatchEndGreedy(_, _)
MatchEndGreedy(s, k) ==
  IF k > Len(s) \/ s[k] = "\n" THEN 0
  ELSE LET later == MatchEndGreedy(s, k + 1)
       IN  IF later # 0 THEN later ELSE IF s[k] \in {"_", "/"} THEN k ELSE 0

\* '(.*?)[_/]' from position k of s: the position of the first underscore or slash
\* at or after k, with no newline before it ('.' does not match a newline); 0 when
\* the pattern does not match from k.
RECURSIVE MatchEnd(_, _)
MatchEnd(s, k) ==
  IF k > Len(s) THEN 0
  ELSE IF s[k] \in {"_", "/"} THEN k
  ELSE IF s[k] = "\n" THEN 0
  ELSE MatchEnd(s, k + 1)

\* re.search(pre + '(.*?)[_/]', s), trying the start positions from i on: the
\* matched text group(0), or <<>> for None (a match is never empty)
RECURSIVE re_search(_, _, _)
re_search(s, pre, i) ==
  IF i > Len(s) THEN <<>>
  ELSE IF LiteralAt(s, pre, i) /\ MatchEnd(s, i + Len(pre)) # 0
       THEN SubSeq(s, i, MatchEnd(s, i + Len(pre)))
       ELSE re_search(s, pre, i + 1)

\* m.group(0)[:-1] if m else ""
Group0WithoutLast(m) == IF m = <<>> THEN <<>> ELSE SubSeq(m, 1, Len(m) - 1)

\* x[a:b] and x[a:] of Python for 0 <= a <= b
Slice(x, a, b) ==
  IF a >= Len(x) THEN <<>> ELSE SubSeq(x, a + 1, IF b < Len(x) THEN b ELSE Len(x))
SliceFrom(x, a) == Slice(x, a, Len(x))

\* 02b, lines 189-200
fetch_subject_and_session(path) ==
  [fn |-> "fetch_subject_and_session", raised |-> FALSE,
   participant_id |-> Group0WithoutLast(re_search(path, <<"s", "u", "b", "-">>, 1)),
   session_id |-> Group0WithoutLast(re_search(path, <<"s", "e", "s", "-">>, 1)),
   session |-> ""]

\* Mutant: the halves of the participant id are taken as four characters each, as
\* the docstring of the function has it.
SessionLabelFourDigits(session_id, participant_id) ==
  IF SliceFrom(session_id, 4) = Slice(participant_id, 4, 8) THEN "Session 1"
  ELSE IF SliceFrom(session_id, 4) = SliceFrom(participant_id, 8) THEN "Session 2"
  ELSE "unbound"

\* Mutant: an else branch that takes the second session for granted.
SessionLabelDefault(session_id, participant_id) ==
  IF SliceFrom(session_id, 4) = Slice(participant_id, 4, 9) THEN "Session 1" ELSE "Session 2"

\* utils.py, lines 118-121: the if and the elif without else; "unbound" when neither
\* branch assigned the local variable session
SessionLabel(session_id, participant_id) ==
  IF SliceFrom(session_id, 4) = Slice(participant_id, 4, 9) THEN "Session 1"
  ELSE IF SliceFrom(session_id, 4) = SliceFrom(participant_id, 9) THEN "Session 2"
  ELSE "unbound"

\* utils.py, lines 91-123: the return of an unbound local raises UnboundLocalError
fetch_participant_and_session(path) ==
  LET participant_id == Group0WithoutLast(re_search(path, <<"s", "u", "b", "-">>, 1))
      session_id == Group0WithoutLast(re_search(path, <<"s", "e", "s", "-">>, 1))
      session == SessionLabel(session_id, participant_id)
  IN  [fn |-> "fetch_participant_and_session", raised |-> (session = "unbound"),
       participant_id |-> participant_id, session_id |-> session_id,
       session |-> IF session = "unbound" THEN "" ELSE session]

ParserInit ==
  /\ filename_path \in Filenames(MaxPieces)
  /\ parsed = NoResult
  /\ roster = <<>>
  /\ fs = {}
  /\ startFs = {}
  /\ completed = {}
  /\ DriverIdle
  /\ cwd = bids_folder
  /\ columns = columns_to_read
  /\ phase = <<>>
  /\ started = {}
  /\ convertible = {}
  /\ ToolsIdle

\* a call of the parser of 02b (lines 341-342 call it with the two input paths)
CallFetchSubjectAndSession ==
  /\ parsed.fn = "none"
  /\ parsed' = fetch_subject_and_session(filename_path)
  /\ UNCHANGED << roster, fs, startFs, driverVars, phase, started, convertible, filename_path,
                  toolVars >>

\* a call of the parser of utils.py (the plotting scripts map it over 'Filename')
CallFetchParticipantAndSession ==
  /\ parsed.fn = "none"
  /\ parsed' = fetch_participant_and_session(filename_path)
  /\ UNCHANGED << roster, fs, startFs, driverVars, phase, started, convertible, filename_path,
                  toolVars >>

ParserNext ==
  \/ CallFetchSubjectAndSession
  \/ CallFetchParticipantAndSession

ParserSpec == ParserInit /\ [][ParserNext]_vars

\* ------------------------------------------------------ the figure loop (02a)
\* loop_across_subjects_to_generate_figure of
\* 02a_loop_across_subjects_to_generate_figure.py, called once per run of main, and
\* the script 02b it starts with subprocess.run.

\* -path-in after os.path.abspath, and the folders below it
path_results == << <<"r">> >>
results_dir == Join2(path_results, <<"r", "e", "s", "u", "l", "t", "s">>)
figures_dir == Join2(path_results, <<"f", "i", "g", "u", "r", "e", "s">>)
surgery_dir == Join2(figures_dir, <<"s", "u", "r", "g", "e", "r", "y">>)

\* the subjects with results: the codes of their two sessions
FigureSubjects ==
  { << <<"1", "8", "6", "0", "B">>, <<"6", "4", "7", "2", "B">> >>,
    << <<"2", "3", "9", "0", "B">>, <<"4", "9", "4", "9", "B">> >> }

\* f"{subject}_ses-{session}_T2w_metrics_perslice_PAM50.csv"
PersliceCsv(subject, session) ==
  subject \o <<"_">> \o Ses(session) \o <<"_", "T", "2", "w", "_", "m", "e", "t", "r", "i", "c", "s", "_", "p", "e", "r", "s", "l", "i", "c", "e", "_", "P", "A", "M", "5", "0", ".", "c", "s", "v">>

\* The files sct_run_batch may have left in <path_results>/results: the per-slice
\* CSV file of either session of a subject, and a per-level CSV file.
ResultFiles ==
  { PersliceCsv(Sub(s[1] \o s[2]), s[k]) : s \in FigureSubjects, k \in {1, 2} }
    \cup { Sub(<<"1", "8", "6", "0", "B", "6", "4", "7", "2", "B">>) \o <<"_">> \o Ses(<<"1", "8", "6", "0", "B">>) \o <<"_", "T", "2", "w", "_", "m", "e", "t", "r", "i", "c", "s", "_", "p", "e", "r", "l", "e", "v", "e", "l", ".", "c", "s", "v">> }

\* the most files the results folder holds
MaxFiles == 4

\* The kept rows of the sheet as the loop reads them: 'MR B1' and whether
\* 'Datum operace' holds a date.
SurgeryRows ==
  { [b1 |-> <<"1", "8", "6", "0", "B">>, operace |-> TRUE],
    [b1 |-> <<"1", "8", "6", "0", "B">>, operace |-> FALSE],
    [b1 |-> <<"2", "3", "9", "0", "B">>, operace |-> TRUE] }

\* the entries exclude.yml may list under 'T2w': a subject, a subject with a session
ExcludeEntries ==
  { Sub(<<"1", "8", "6", "0", "B", "6", "4", "7", "2", "B">>),
    Sub(<<"2", "3", "9", "0", "B", "4", "9", "4", "9", "B">>) \o <<"_">> \o Ses(<<"2", "3", "9", "0", "B">>) }

\* read_exclude_yml: [subject[:14] for subject in exclude_dict['T2w']]
read_exclude_yml(entries) == { Slice(e, 0, 14) : e \in entries }

\* the characters of the names used here, in code point order
Ascii == <<"-", ".", "/", "0", "1", "2", "3", "4", "5", "6", "7", "8", "9", "A", "B", "C", "D", "E", "F", "G", "H", "I", "J", "K", "L", "M", "N", "O", "P", "Q", "R", "S", "T", "U", "V", "W", "X", "Y", "Z", "_", "a", "b", "c", "d", "e", "f", "g", "h", "i", "j", "k", "l", "m", "n", "o", "p", "q", "r", "s", "t", "u", "v", "w", "x", "y", "z">>
ord(c) == CHOOSE i \in DOMAIN Ascii : Ascii[i] = c

\* a < b for two Python strings
RECURSIVE StrLess(_, _)
StrLess(a, b) ==
  IF b = <<>> THEN FALSE
  ELSE IF a = <<>> THEN TRUE
  ELSE IF Head(a) = Head(b) THEN StrLess(Tail(a), Tail(b))
  ELSE ord(Head(a)) < ord(Head(b))

\* sorted(names)
RECURSIVE sorted(_)
sorted(names) ==
  IF names = {} THEN <<>>
  ELSE LET least == CHOOSE x \in names : \A y \in names : x = y \/ StrLess(x, y)
       IN  << least >> \o sorted(names \ {least})

\* os.listdir(dir) in the file system f
listdir(f, dir) ==
  { p[Len(p)] : p \in { q \in f : Len(q) = Len(dir) + 1 /\ SubSeq(q, 1, Len(dir)) = dir } }

\* pat in s, for two Python strings
Contains(s, pat) == \E i \in 1..Len(s) : LiteralAt(s, pat, i)

\* the path as the string handed over on a command line
RECURSIVE PathString(_)
PathString(p) == IF p = <<>> THEN <<>> ELSE <<"/">> \o Head(p) \o PathString(Tail(p))

\* s.replace(old, '')
RECURSIVE Remove(_, _)
Remove(s, old) ==
  IF s = <<>> THEN <<>>
  ELSE IF LiteralAt(s, old, 1) THEN Remove(SubSeq(s, Len(old) + 1, Len(s)), old)
  ELSE << Head(s) >> \o Remove(Tail(s), old)

\* 02b, lines 341-345 and 293-294: the file create_lineplot saves, named after the
\* session ids parsed from the two input paths
SavedFigure(path_ses1, path_ses2, path_out) ==
  LET ses1 == Remove(fetch_subject_and_session(PathString(path_ses1)).session_id, <<"s", "e", "s", "-">>)
      ses2 == Remove(fetch_subject_and_session(PathString(path_ses2)).session_id, <<"s", "e", "s", "-">>)
  IN  Join2(path_out, ses1 \o ses2 \o <<"_", "T", "2", "w", "_", "l", "i", "n", "e", "p", "l", "o", "t", "_", "P", "A", "M", "5", "0", ".", "p", "n", "g">>)

\* lines 73-75 of 02a: the fields cut out of a file name
FileSubject(filename) == Slice(filename, 0, 14)
FileSession1(filename) == Slice(filename, 4, 9)
FileSession2(filename) == Slice(filename, 9, 14)

\* line 87: a row of the sheet with this 'MR B1' has a date in 'Datum operace'
HadSurgery(df, session1) == \E r \in df : r.b1 = session1 /\ r.operace

\* lines 87-90: the output folder chosen for the subject
FigurePathOut(df, session1) ==
  IF HadSurgery(df, session1) THEN surgery_dir ELSE figures_dir

\* line 95: the file whose existence makes the loop skip the subject
FigureChecked(session1, session2) ==
  Join2(figures_dir, session1 \o session2 \o <<"_", "T", "2", "w", "_", "l", "i", "n", "e", "p", "l", "o", "t", "_", "P", "A", "M", "5", "0", ".", "p", "n", "g">>)

\* the results folder is there, no figure has been made
FigureInit ==
  /\ \E files \in { S \in SUBSET ResultFiles : Cardinality(S) <= MaxFiles } :
       fs = WithParents(results_dir) \cup { Join2(results_dir, f) : f \in files }
  /\ \E df \in SUBSET SurgeryRows : \E entries \in SUBSET ExcludeEntries :
       args = [path_results |-> path_results, subject_df |-> df,
               exclude_list |-> read_exclude_yml(entries)]
  /\ startFs = fs
  /\ RunIdle
  /\ json_file = NoJsonFile
  /\ roster = <<>>
  /\ completed = {}
  /\ DriverIdle
  /\ cwd = bids_folder
  /\ columns = columns_to_read
  /\ AsideIdle

\* the file the loop is at
FigureFile == queue[cursor]

FigureFrame == UNCHANGED << roster, startFs, driverVars, asideVars, args, json_file >>

\* Line 70: a call of the function; the listing is taken and sorted once.  What the
\* subprocesses of the run before saved joins what the runs before it saved.
FigureLoopStarts ==
  /\ stage \in {"idle", "done"}
  /\ passes < MaxRuns
  /\ passes' = passes + 1
  /\ queue' = sorted(listdir(fs, results_dir))
  /\ cursor' = 1
  /\ calls' = <<>>
  /\ records' = <<>>
  /\ earlier' = earlier \cup ({ calls[k].saved : k \in DOMAIN calls } \ { <<>> })
  /\ stage' = "loop"
  /\ UNCHANGED fs
  /\ FigureFrame

\* Line 71: a file that is not a per-slice CSV file is passed over.
FigureOtherFile ==
  /\ stage = "loop"
  /\ cursor <= Len(queue)
  /\ ~Contains(FigureFile, <<"p", "e", "r", "s", "l", "i", "c", "e", "_", "P", "A", "M", "5", "0", ".", "c", "s", "v">>)
  /\ cursor' = cursor + 1
  /\ UNCHANGED << fs, stage, queue, calls, records, passes, earlier >>
  /\ FigureFrame

\* Lines 77-84: the subject is on the exclusion list.
FigureExcluded ==
  /\ stage = "loop"
  /\ cursor <= Len(queue)
  /\ Contains(FigureFile, <<"p", "e", "r", "s", "l", "i", "c", "e", "_", "P", "A", "M", "5", "0", ".", "c", "s", "v">>)
  /\ FileSubject(FigureFile) \in args.exclude_list
  /\ records' = records \o << Logged("Processing", FigureFile),
                              Logged("is listed in the exclusion list. Skipping.",
                                     FileSubject(FigureFile)) >>
  /\ cursor' = cursor + 1
  /\ UNCHANGED << fs, stage, queue, calls, passes, earlier >>
  /\ FigureFrame

\* Lines 77-97: the file looked for exists.
FigureAlreadyExists ==
  /\ stage = "loop"
  /\ cursor <= Len(queue)
  /\ Contains(FigureFile, <<"p", "e", "r", "s", "l", "i", "c", "e", "_", "P", "A", "M", "5", "0", ".", "c", "s", "v">>)
  /\ FileSubject(FigureFile) \notin args.exclude_list
  /\ FigureChecked(FileSession1(FigureFile), FileSession2(FigureFile)) \in fs
  /\ records' = records \o << Logged("Processing", FigureFile),
                              Logged("already exists. Skipping.",
                                     FileSession1(FigureFile) \o FileSession2(FigureFile)) >>
  /\ cursor' = cursor + 1
  /\ UNCHANGED << fs, stage, queue, calls, passes, earlier >>
  /\ FigureFrame

\* Lines 77-106: the file looked for does not exist, and subprocess.run starts 02b.
FigureSubprocessStarts ==
  /\ stage = "loop"
  /\ cursor <= Len(queue)
  /\ Contains(FigureFile, <<"p", "e", "r", "s", "l", "i", "c", "e", "_", "P", "A", "M", "5", "0", ".", "c", "s", "v">>)
  /\ FileSubject(FigureFile) \notin args.exclude_list
  /\ FigureChecked(FileSession1(FigureFile), FileSession2(FigureFile)) \notin fs
  /\ records' = records \o << Logged("Processing", FigureFile),
                              Logged("Creating figure", FileSubject(FigureFile)) >>
  /\ calls' = Append(calls,
       [subject |-> FileSubject(FigureFile),
        ses1 |-> Join2(results_dir,
                       PersliceCsv(FileSubject(FigureFile), FileSession1(FigureFile))),
        ses2 |-> Join2(results_dir,
                       PersliceCsv(FileSubject(FigureFile), FileSession2(FigureFile))),
        path_out |-> FigurePathOut(args.subject_df, FileSession1(FigureFile)),
        saved |-> <<>>])
  /\ stage' = "subprocess"
  /\ UNCHANGED << fs, queue, cursor, passes, earlier >>
  /\ FigureFrame

\* 02b, lines 322-356, then line 107 of 02a: the script makes its output folder,
\* reads the two CSV files and saves the figure, or ends without a figure when a
\* file is missing or holds no slice in range; subprocess.run returns either way and
\* the loop logs the figure as generated.
FigureSubprocessEnds ==
  /\ stage = "subprocess"
  /\ LET call == calls[Len(calls)]
         figure == SavedFigure(call.ses1, call.ses2, call.path_out)
     IN  \E plotted \in { b \in BOOLEAN : b => (call.ses1 \in fs /\ call.ses2 \in fs) } :
           /\ fs' = fs \cup WithParents(call.path_out)
                       \cup (IF plotted THEN { figure } ELSE {})
           /\ calls' = [calls EXCEPT ![Len(calls)].saved =
                                        IF plotted THEN figure ELSE <<>>]
           /\ records' = Append(records, Logged("has been generated.",
                                                Slice(call.subject, 4, 14)))
  /\ cursor' = cursor + 1
  /\ stage' = "loop"
  /\ UNCHANGED << queue, passes, earlier >>
  /\ FigureFrame

\* the loop has gone through the listing
FigureLoopEnds ==
  /\ stage = "loop"
  /\ cursor > Len(queue)
  /\ stage' = "done"
  /\ UNCHANGED << fs, queue, cursor, calls, records, passes, earlier >>
  /\ FigureFrame

FigureNext ==
  \/ FigureLoopStarts
  \/ FigureOtherFile
  \/ FigureExcluded
  \/ FigureAlreadyExists
  \/ FigureSubprocessStarts
  \/ FigureSubprocessEnds
  \/ FigureLoopEnds

FigureSpec == FigureInit /\ [][FigureNext]_vars

\* ------------------------------------------------------ the copy of the sources (00a)
\* main of 00a_copy_source_subjects.py: the dicom folder of every session code of
\* the kept rows is copied from the folders of the disc into dcm-brno/sourcedata.

DISC == << <<"m", "d", "3">> >>

\* the folders with the dicom data, in the order main tries them
FOLDERS ==
  << <<"D", "C", "M", "-", "P", "R", "O">>,
     <<"D", "C", "M", "-", "P", "R", "O", "_", "l", "o", "n", "g", "i", "t", "u", "d", "i", "n", "a", "l">>,
     <<"D", "C", "M", "-", "P", "R", "O", "_", "N", "O", "L", "O", "S", "T">>,
     <<"D", "C", "M", "-", "P", "R", "O", "_", "N", "O", "L", "O", "S", "T", "_", "2", "0", "2", "4", "-", "0", "2", "-", "0", "8">> >>

\* os.path.join(DISC, 'dcm-brno/sourcedata')
sourcedata == DISC \o << <<"d", "c", "m", "-", "b", "r", "n", "o">>, <<"s", "o", "u", "r", "c", "e", "d", "a", "t", "a">> >>

\* os.path.join(DISC, folder, 'dicom', f'sub-{subject}')
source_path(folder, subject) == DISC \o << folder, <<"d", "i", "c", "o", "m">>, Sub(subject) >>

\* os.path.join(DISC, 'dcm-brno', 'sourcedata', f'sub-{subject}')
dest_path(subject) == DISC \o << <<"d", "c", "m", "-", "b", "r", "n", "o">>, <<"s", "o", "u", "r", "c", "e", "d", "a", "t", "a">>, Sub(subject) >>

\* a cell of the sheet without a value
EmptyCell == <<>>

\* The rows of the sheet: a subject with two codes, one with the same code in both
\* cells, one without a second session, one that is not kept.
CopyRows ==
  { [flag |-> "ano", b1 |-> <<"1", "A">>, b2 |-> <<"2", "B">>],
    [flag |-> "ano", b1 |-> <<"1", "A">>, b2 |-> <<"1", "A">>],
    [flag |-> "ano", b1 |-> <<"1", "A">>, b2 |-> EmptyCell],
    [flag |-> "ne", b1 |-> <<"2", "B">>, b2 |-> <<"1", "A">>] }

CopyRosters == SeqsUpTo(CopyRows, MaxRows)

\* the folders that may hold the dicom folder of the second code: none, the second,
\* the second and the last
SecondCodeFolders == { {}, {2}, {2, 4} }

\* Series.dropna()
dropna(cells) == SelectSeq(cells, LAMBDA c : c # EmptyCell)

\* line 73: pd.concat([subject_df['MR B1'], subject_df['MR B2']]).dropna() of the
\* kept rows
list_of_subjects(rs) ==
  LET kept == Filter(rs)
  IN  dropna([k \in DOMAIN kept |-> rs[kept[k]].b1] \o [k \in DOMAIN kept |-> rs[kept[k]].b2])

\* f'{len(subject_df)}'
Digits(n) == << <<"0", "1", "2", "3", "4", "5", "6", "7", "8", "9">>[n + 1] >>

\* Mutant: the destination is not looked at.
CopyWherever(f, src, dst) == src \in f

\* line 82: os.path.isdir(source_path) and not os.path.isdir(dest_path)
ShouldCopy(f, src, dst) == src \in f /\ dst \notin f

\* the next step of the two nested loops
NextFolder(at) == IF at[2] < Len(FOLDERS) THEN << at[1], at[2] + 1 >> ELSE << at[1] + 1, 1 >>

\* the disc before the first run: the first code in any of the folders, the second
\* as SecondCodeFolders has it, and the first code perhaps copied already
CopyInit ==
  /\ roster \in CopyRosters
  /\ \E in1 \in SUBSET DOMAIN FOLDERS : \E in2 \in SecondCodeFolders :
       \E pre \in SUBSET { dest_path(<<"1", "A">>) } :
         fs = { DISC }
              \cup UNION { WithParents(source_path(FOLDERS[j], <<"1", "A">>)) : j \in in1 }
              \cup UNION { WithParents(source_path(FOLDERS[j], <<"2", "B">>)) : j \in in2 }
              \cup UNION { WithParents(p) : p \in pre }
  /\ startFs = fs
  /\ args = [xlsx_table |-> "table.xlsx"]
  /\ RunIdle
  /\ json_file = NoJsonFile
  /\ completed = {}
  /\ DriverIdle
  /\ cwd = bids_folder
  /\ columns = columns_to_read
  /\ AsideIdle

CopyFrame == UNCHANGED << roster, driverVars, asideVars, args, passes, earlier, json_file >>

\* Lines 46-73: the sourcedata folder is made, the sheet read and filtered, the count
\* logged, the list of the codes built.
CopyStarts ==
  /\ stage \in {"idle", "done", "raised"}
  /\ passes < MaxRuns
  /\ fs' = fs \cup WithParents(sourcedata)
  /\ startFs' = fs
  /\ queue' = list_of_subjects(roster)
  /\ cursor' = << 1, 1 >>
  /\ calls' = <<>>
  /\ records' = << Logged("Number of subjects", Digits(Len(Filter(roster)))) >>
  /\ stage' = "loop"
  /\ passes' = passes + 1
  /\ UNCHANGED << roster, driverVars, asideVars, args, earlier, json_file >>

\* Lines 76-82: the folder does not hold the subject, or the destination exists.
CopyPassesFolder ==
  /\ stage = "loop"
  /\ cursor[1] <= Len(queue)
  /\ ~ShouldCopy(fs, source_path(FOLDERS[cursor[2]], queue[cursor[1]]),
                 dest_path(queue[cursor[1]]))
  /\ cursor' = NextFolder(cursor)
  /\ UNCHANGED << fs, startFs, stage, queue, calls, records >>
  /\ CopyFrame

\* Lines 82-84: the folder holds the subject and the destination does not exist:
\* shutil.copytree copies the folder, or raises, with or without having made the
\* destination; it also raises when the destination exists.
CopyTree ==
  /\ stage = "loop"
  /\ cursor[1] <= Len(queue)
  /\ LET subject == queue[cursor[1]]
         folder == FOLDERS[cursor[2]]
         src == source_path(folder, subject)
         dst == dest_path(subject)
     IN  /\ ShouldCopy(fs, src, dst)
         /\ records' = Append(records, Logged("exists in", subject \o <<" ">> \o folder))
         /\ calls' = Append(calls, [subject |-> subject, src |-> src, dst |-> dst])
         /\ \E outcome \in IF dst \in fs THEN {"refused"}
                           ELSE {"copied", "partial", "refused"} :
              /\ fs' = IF outcome = "refused" THEN fs ELSE fs \cup { dst }
              /\ stage' = IF outcome = "copied" THEN "loop" ELSE "raised"
              /\ cursor' = IF outcome = "copied" THEN NextFolder(cursor) ELSE cursor
  /\ UNCHANGED << startFs, queue >>
  /\ CopyFrame

\* the records of the check of lines 87-89, for the subjects from position i on
RECURSIVE NotCopied(_, _, _)
NotCopied(f, subjects, i) ==
  IF i > Len(subjects) THEN <<>>
  ELSE (IF dest_path(subjects[i]) \notin f
        THEN << Logged("ERROR: was not copied to dcm-brno/sourcedata.", subjects[i]) >>
        ELSE <<>>) \o NotCopied(f, subjects, i + 1)

\* Lines 87-89: after the copy loop, the check of every subject of the list.
CopyVerifies ==
  /\ stage = "loop"
  /\ cursor[1] > Len(queue)
  /\ records' = records \o NotCopied(fs, queue, 1)
  /\ stage' = "done"
  /\ UNCHANGED << fs, startFs, queue, cursor, calls >>
  /\ CopyFrame

CopyNext ==
  \/ CopyStarts
  \/ CopyPassesFolder
  \/ CopyTree
  \/ CopyVerifies

CopySpec == CopyInit /\ [][CopyNext]_vars

\* ------------------------------------------------------ update_config_file
\* main of update_config_file.py: the list a YAML file holds under -key is written
\* into the JSON config file under the key named by -mode.  A JSON file is the
\* sequence of the members of its top-level object as they stand in the text, with
\* the indentation of the text; a YAML file is the mapping it parses to, or holds
\* no document at all.

\* JSON values: a number and arrays of subjects
JsonValues ==
  { [type |-> "number", items |-> << "8" >>],
    [type |-> "array", items |-> << "sub-001" >>],
    [type |-> "array", items |-> << "sub-002", "sub-003" >>] }

\* the members a config file may hold; a key may stand in the text more than once
ConfigMembers == [key : {"jobs", "exclude_list", "include_list"}, value : JsonValues]

\* the most members in the text of a config file before the first run
MaxMembers == 2

\* the config files: hand-written ones, files json.dump has written, none
JsonFiles ==
  { [exists |-> TRUE, indent |-> i, members |-> m] :
      i \in {2, 4}, m \in SeqsUpTo(ConfigMembers, MaxMembers) }
    \cup { NoJsonFile }

\* the keys and the lists of a YAML file
YamlKeys == {"csa_t1", "T2w"}
YamlLists ==
  { [type |-> "array", items |-> << "sub-001" >>],
    [type |-> "array", items |-> << "sub-002", "sub-003" >>] }

\* what yaml.safe_load returns: None for a file without a document, or a mapping
YamlData ==
  { [none |-> TRUE, map |-> <<>>] }
    \cup { [none |-> FALSE, map |-> m] :
             m \in UNION { [keys -> YamlLists] : keys \in SUBSET YamlKeys } }

\* d[k] = v on a Python dict, the dict being the sequence of its items
SetItem(d, k, v) ==
  IF \E i \in DOMAIN d : d[i].key = k
  THEN [i \in DOMAIN d |-> IF d[i].key = k THEN [key |-> k, value |-> v] ELSE d[i]]
  ELSE Append(d, [key |-> k, value |-> v])

\* json.load: the members are put into a dict one after the other
RECURSIVE json_load(_)
json_load(members) ==
  IF members = <<>> THEN <<>>
  ELSE LET last == members[Len(members)]
       IN  SetItem(json_load(SubSeq(members, 1, Len(members) - 1)), last.key, last.value)

\* read_json_file
read_json_file(file) == json_load(file.members)

\* write_json_file: open(file_path, 'w') and json.dump(data, file, indent=4)
write_json_file(data) == [exists |-> TRUE, indent |-> 4, members |-> data]

\* read_yaml_file raises: 'key not in data' is a TypeError for None, and the
\* ValueError of line 60 for a mapping without the key
read_yaml_file_raises(data, key) == data.none \/ key \notin DOMAIN data.map

\* read_yaml_file returns data[key]
read_yaml_file(data, key) == data.map[key]

\* Mutant: the config is replaced by the new pair alone.
AddKeyValueAlone(config_data, mode, yml_data) == << [key |-> mode, value |-> yml_data] >>

\* line 108: config_data[args.mode] = yml_data
AddKeyValue(config_data, mode, yml_data) == SetItem(config_data, mode, yml_data)

\* the files and the arguments, which stay the same from run to run
ConfigInit ==
  /\ json_file \in JsonFiles
  /\ \E data \in YamlData : \E mode \in {"exclude_list", "include_list"} :
       \E key \in YamlKeys : args = [mode |-> mode, key |-> key, yml_file |-> data]
  /\ RunIdle
  /\ roster = <<>>
  /\ fs = {}
  /\ startFs = {}
  /\ completed = {}
  /\ DriverIdle
  /\ cwd = bids_folder
  /\ columns = columns_to_read
  /\ AsideIdle

\* what a run leaves for the runs after it: the file it found, and the file the
\* first run left
AfterRun(found, left) ==
  [before |-> found, once |-> IF passes = 0 THEN left ELSE earlier.once]

ConfigFrame == UNCHANGED << roster, fs, startFs, driverVars, asideVars, args, queue, cursor >>

\* Lines 96-103: the config file does not exist; the message is printed and
\* read_json_file raises.
ConfigFileMissing ==
  /\ stage \in {"idle", "done", "raised"}
  /\ passes < MaxRuns
  /\ ~json_file.exists
  /\ records' = << Logged("ERROR: does not exist.", "config-file") >>
  /\ calls' = <<>>
  /\ stage' = "raised"
  /\ passes' = passes + 1
  /\ earlier' = AfterRun(json_file, json_file)
  /\ UNCHANGED json_file
  /\ ConfigFrame

\* Lines 103-105: the config is read, and read_yaml_file raises.
ConfigKeyMissing ==
  /\ stage \in {"idle", "done", "raised"}
  /\ passes < MaxRuns
  /\ json_file.exists
  /\ read_yaml_file_raises(args.yml_file, args.key)
  /\ records' = <<>>
  /\ calls' = << [fn |-> "read_json_file"], [fn |-> "read_yaml_file"] >>
  /\ stage' = "raised"
  /\ passes' = passes + 1
  /\ earlier' = AfterRun(json_file, json_file)
  /\ UNCHANGED json_file
  /\ ConfigFrame

\* Lines 103-113: the config is read, the list is put under the key and the config
\* is written back.
ConfigUpdated ==
  /\ stage \in {"idle", "done", "raised"}
  /\ passes < MaxRuns
  /\ json_file.exists
  /\ ~read_yaml_file_raises(args.yml_file, args.key)
  /\ json_file' = write_json_file(AddKeyValue(read_json_file(json_file), args.mode,
                                              read_yaml_file(args.yml_file, args.key)))
  /\ records' = << Logged("has been added to the JSON config file.", args.mode) >>
  /\ calls' = << [fn |-> "read_json_file"], [fn |-> "read_yaml_file"],
                 [fn |-> "write_json_file"] >>
  /\ stage' = "done"
  /\ passes' = passes + 1
  /\ earlier' = AfterRun(json_file, json_file')
  /\ ConfigFrame

ConfigNext ==
  \/ ConfigFileMissing
  \/ ConfigKeyMissing
  \/ ConfigUpdated

ConfigSpec == ConfigInit /\ [][ConfigNext]_vars

\* ================================================================ claims
\* The vocabulary of the claims, spelled out from their text and not from the
\* operators of the driver.
ClaimCode(r, s) == IF s = 1 THEN r.b1 ELSE r.b2

\* <path_in>/sub-<session_code>
ClaimSourceDir(code) == dicom_folder_path \o << <<"s", "u", "b", "-">> \o code >>

\* sub-<composite_id> and ses-<session_code>
ClaimParticipant(r) == <<"s", "u", "b", "-">> \o r.b1 \o r.b2
ClaimSession(r, s) == <<"s", "e", "s", "-">> \o ClaimCode(r, s)

\* <path_out>/sub-<composite_id>/ses-<session_code>
ClaimDestDir(r, s) == bids_folder \o << ClaimParticipant(r), ClaimSession(r, s) >>

\* the slots of the rows whose flag is the literal 'ano'
KeptSlots == { at \in (DOMAIN roster) \X {1, 2} : roster[at[1]].flag = "ano" }

SourceOf(at) == ClaimSourceDir(ClaimCode(roster[at[1]], at[2]))
DestOf(at) == ClaimDestDir(roster[at[1]], at[2])

\* the records and the invocations of the current run that are about a slot
RecordsAt(at) == { k \in DOMAIN log : log[k].at = at }
InvocationsAt(at) == { k \in DOMAIN invocations : invocations[k].at = at }
Reported(at, msg) == \E k \in RecordsAt(at) : log[k].msg = msg

Last(q) == q[Len(q)]

\* a step of the loop that examines the slot at hand (each writes one record)
ExaminesSlot == InLoop /\ log' # log

\* ---------------------------------------------------------------- C1
\* A complete run that follows a complete run launches the conversions of that run
\* whose destination folder is still absent, and no other; so two complete runs that
\* start from the same tree launch the same set of conversions.
SamePlan ==
  (pc = "done" /\ prevRun.ended = "done") =>
    /\ Launched(invocations) = { d \in prevRun.launched : d \notin startFs }
    /\ prevRun.startFs = startFs => Launched(invocations) = prevRun.launched

\* the message expected for a slot whose destination folder exists: 'already
\* exists', or, when bySource is set and the slot has no source folder, 'does not exist'
ReportFor(at, bySource) ==
  IF bySource /\ SourceOf(at) \notin startFs THEN "does not exist in" ELSE "already exists in"

\* A slot whose destination existed when the run started gets no conversion in
\* that run, and by the end of the run its one record is the expected message.
SkippedWhenPresent(bySource) ==
  \A at \in KeptSlots :
    DestOf(at) \in startFs =>
      /\ InvocationsAt(at) = {}
      /\ (pc = "converting" => CurAt # at)
      /\ pc = "done" => /\ Cardinality(RecordsAt(at)) = 1
                        /\ Reported(at, ReportFor(at, bySource))

\* C1 as stated: planning twice against the same destination tree selects the same
\* jobs, and a slot whose destination folder exists is never converted by a later
\* run and is reported as already existing.
C1_Original == SamePlan /\ SkippedWhenPresent(FALSE)

\* C1 as amended: the same, but the slot is reported as already existing only when
\* its source folder exists; a slot without source folder is reported as not
\* existing in the source folder.
C1_Idempotent == [](SamePlan /\ SkippedWhenPresent(TRUE))

\* Witness of C1: a second complete run after a first one that launched two
\* conversions, one of which left no destination folder; the second run launched
\* that one again and reported the other, converted by the first, as already existing.
C1_Witness ==
  /\ pc = "done" /\ prevRun.ended = "done"
  /\ Cardinality(prevRun.launched) = 2
  /\ Cardinality(Launched(invocations)) = 1
  /\ \E at \in KeptSlots :
       /\ DestOf(at) \in prevRun.launched
       /\ DestOf(at) \in completed \cap startFs
       /\ InvocationsAt(at) = {}
       /\ Reported(at, "already exists in")

\* ---------------------------------------------------------------- C2
\* The examination of a slot whose destination folder exists starts no conversion;
\* report is the message it writes.
NoConversionOverExisting(report) ==
  /\ (ExaminesSlot /\ DestOf(CurAt) \in fs) =>
       /\ pc' = "examine"
       /\ command' = <<>>
       /\ invocations' = invocations
       /\ fs' = fs
       /\ Last(log').at = CurAt
       /\ Last(log').msg = report
  /\ pc' = "converting" /\ pc = "examine" =>
       /\ ConverterOutput(command') \notin fs
       /\ DestOf(CurAt) \notin fs

\* C2 as stated: the converter is never invoked for a slot whose destination folder
\* exists when the slot is examined, and the slot is logged as already existing,
\* for session 1 and for session 2.
C2_Original == [][NoConversionOverExisting("already exists in")]_vars

\* C2 as amended: the converter is never invoked for such a slot; the slot is
\* logged as already existing when its source folder exists and as not existing in
\* the source folder when it does not.
C2_NeverOverExisting ==
  [][NoConversionOverExisting(IF SourceOf(CurAt) \in fs THEN "already exists in"
                                                        ELSE "does not exist in")]_vars

\* Witness of C2: a run has skipped both sessions of a row because their
\* destination folders existed.
C2_Witness ==
  \E i \in DOMAIN roster :
    /\ roster[i].b1 # roster[i].b2
    /\ \A s \in {1, 2} :
         /\ << i, s >> \in KeptSlots
         /\ DestOf(<< i, s >>) \in startFs
         /\ Reported(<< i, s >>, "already exists in")
         /\ InvocationsAt(<< i, s >>) = {}

\* ---------------------------------------------------------------- C3
\* the number of rows whose flag is the literal 'ano'
KeptRows == { i \in DOMAIN roster : roster[i].flag = "ano" }

\* C3: a row yields records and conversions if and only if its flag is exactly
\* 'ano': nothing is ever logged or converted for a row with another flag, a
\* complete run has handled every row flagged 'ano', counted exactly those rows, and
\* ended without error.
C3_FilterExact ==
  /\ \A k \in DOMAIN log : log[k].at # << 0, 0 >> => log[k].at \in KeptSlots
  /\ \A k \in DOMAIN invocations : invocations[k].at \in KeptSlots
  /\ pc = "converting" => CurAt \in KeptSlots
  /\ log # <<>> => log[1].msg = "Number of subjects" /\ log[1].n = Cardinality(KeptRows)
  /\ pc \in {"examine", "converting", "done", "interrupted"} => log # <<>>
  /\ pc = "done" =>
       /\ exitStatus = 0
       /\ \A at \in (DOMAIN roster) \X {1, 2} : (RecordsAt(at) # {}) <=> (at \in KeptSlots)

\* Witness of C3: a complete run over a roster with a row flagged 'ano' and a row
\* flagged 'Ano', with a conversion for the former and nothing for the latter.
C3_Witness ==
  /\ pc = "done"
  /\ \E i, j \in DOMAIN roster :
       /\ roster[i].flag = "ano" /\ InvocationsAt(<< i, 1 >>) # {}
       /\ roster[j].flag = "Ano" /\ RecordsAt(<< j, 1 >>) = {} /\ RecordsAt(<< j, 2 >>) = {}

\* ---------------------------------------------------------------- C4
\* C4: the participant label of every conversion of a row, for session 1 and for
\* session 2, is 'sub-' followed by the code of 'MR B1' followed by the code of
\* 'MR B2', and the skip check of the conversion looked under that label.
C4_CompositeId ==
  /\ \A k \in DOMAIN invocations :
       ArgParticipant(invocations[k].command) = ClaimParticipant(roster[invocations[k].at[1]])
  /\ pc = "converting" =>
       /\ ArgParticipant(command) = ClaimParticipant(CurRow)
       /\ checked[Len(bids_folder) + 1] = ClaimParticipant(CurRow)

\* Witness of C4: both sessions of a row with two different codes were converted.
C4_Witness ==
  \E i \in DOMAIN roster :
    /\ roster[i].b1 # roster[i].b2
    /\ InvocationsAt(<< i, 1 >>) # {}
    /\ InvocationsAt(<< i, 2 >>) # {}

\* ---------------------------------------------------------------- C5
\* the place of a slot in the order of the loop, and the place of the slot at hand
KeptUpTo(i) == Cardinality({ j \in KeptRows : j <= i })
SlotNo(at) == 2 * (KeptUpTo(at[1]) - 1) + at[2]
Position == 2 * (idx - 1) + slot

\* every slot of every kept row has exactly one record
AllSlotsHandled == \A at \in KeptSlots : Cardinality(RecordsAt(at)) = 1

\* C5: a slot whose source folder is absent is never converted, its only record is
\* 'does not exist' with its code and the source root, the loop goes on with the
\* slots that follow it without leaving one out, and the run ends with every slot of
\* every kept row handled.
C5_MissingSource ==
  [](\A at \in KeptSlots :
      SourceOf(at) \notin fs =>
        /\ InvocationsAt(at) = {}
        /\ pc = "converting" => CurAt # at
        /\ \A k \in RecordsAt(at) :
             /\ log[k].msg = "does not exist in"
             /\ log[k].subject = ClaimCode(roster[at[1]], at[2])
             /\ log[k].path = dicom_folder_path
        /\ (RecordsAt(at) # {} /\ pc \in {"examine", "converting"}) =>
             /\ SlotNo(at) < Position
             /\ \A other \in KeptSlots :
                  (SlotNo(at) < SlotNo(other) /\ SlotNo(other) < Position)
                    => RecordsAt(other) # {}
        /\ (RecordsAt(at) # {} /\ pc = "done") => AllSlotsHandled)

\* Witness of C5: a complete run in which session 1 of the first kept row had no
\* source folder, session 2 of that row was converted and a later row was handled.
C5_Witness ==
  /\ pc = "done"
  /\ \E i, j \in KeptRows :
       /\ i < j
       /\ SourceOf(<< i, 1 >>) \notin fs
       /\ Reported(<< i, 1 >>, "does not exist in")
       /\ InvocationsAt(<< i, 2 >>) # {}
       /\ RecordsAt(<< j, 1 >>) # {} /\ RecordsAt(<< j, 2 >>) # {}

\* ---------------------------------------------------------------- C6
CountRecords(msgs) == Cardinality({ k \in DOMAIN log : log[k].msg \in msgs })

\* C6: at the end of a run the records of executed or skip-checked slots are as many
\* as the slots of kept rows whose source folder exists, the 'does not exist'
\* records as many as the slots of kept rows whose source folder is absent, and no
\* record is about a row that is not kept.
C6_JobAccounting ==
  pc = "done" =>
    /\ CountRecords({"Running dcm2bids for", "already exists in"})
         = Cardinality({ at \in KeptSlots : SourceOf(at) \in fs })
    /\ CountRecords({"does not exist in"})
         = Cardinality({ at \in KeptSlots : SourceOf(at) \notin fs })
    /\ \A k \in DOMAIN log : log[k].at # << 0, 0 >> => log[k].at \in KeptSlots
    /\ Len(log) = 1 + 2 * Cardinality(KeptRows)

\* Witness of C6: a complete run over a row that is not kept and a kept row whose
\* session 1 has a source folder and whose session 2 has none: one job, one
\* 'does not exist' record.
C6_Witness ==
  /\ pc = "done"
  /\ Len(roster) = 2
  /\ Cardinality(KeptRows) = 1
  /\ CountRecords({"Running dcm2bids for", "already exists in"}) = 1
  /\ CountRecords({"does not exist in"}) = 1
  /\ \E i \in KeptRows : SourceOf(<< i, 1 >>) \in fs /\ SourceOf(<< i, 2 >>) \notin fs

\* ---------------------------------------------------------------- C7
\* the five values of a command line are those of the slot it was built for
FiveValues(cmd, at) ==
  /\ Len(cmd) = 5
  /\ ArgDicomDir(cmd) = SourceOf(at)
  /\ ArgParticipant(cmd) = ClaimParticipant(roster[at[1]])
  /\ ArgSession(cmd) = ClaimSession(roster[at[1]], at[2])
  /\ ArgOutputDir(cmd) = bids_folder
  /\ ArgConfig(cmd) = config_path

\* C7: every conversion, of session 1 and of session 2, is given the source folder
\* <path_in>/sub-<code>, the participant sub-<composite id>, the session ses-<code>,
\* the output root <path_out> and the config path; and the path its skip check
\* tested is <output root>/<participant>/<session> of that very command.
C7_FiveValues ==
  /\ \A k \in DOMAIN invocations : FiveValues(invocations[k].command, invocations[k].at)
  /\ pc = "converting" =>
       /\ FiveValues(command, CurAt)
       /\ checked = ArgOutputDir(command) \o << ArgParticipant(command), ArgSession(command) >>

\* Witness of C7: session 1 of a row with two different codes was converted and the
\* conversion of its session 2 is running.
C7_Witness ==
  /\ pc = "converting"
  /\ slot = 2
  /\ CurRow.b1 # CurRow.b2
  /\ InvocationsAt(<< subject_df[idx], 1 >>) # {}

\* ---------------------------------------------------------------- C8
\* the step in which os.system returns from a converter that failed
ConverterFailed ==
  /\ pc = "converting"
  /\ Len(invocations') = Len(invocations) + 1
  /\ Last(invocations').status = "failed"

\* after a failure the loop is at the slot that follows the failed one
GoesOnAfterFailure ==
  ConverterFailed =>
    /\ pc' = "examine"
    /\ slot' = (IF slot = 1 THEN 2 ELSE 1)
    /\ idx' = (IF slot = 1 THEN idx ELSE idx + 1)
    /\ log' = log

\* a run that reaches the end of the loop has handled every slot of every kept row
\* and exits with status 0
EndsWell == pc = "done" => exitStatus = 0 /\ AllSlotsHandled

\* C8: a converter failure never ends the batch: the driver goes on with the next
\* slot, and the run handles every slot of every kept row and exits with status 0
\* however many conversions failed.
C8_FailureNotFatal == [][GoesOnAfterFailure]_vars /\ []EndsWell

\* Witness of C8: a complete run with exit status 0 in which the first conversion
\* and a later one failed.
C8_Witness ==
  /\ pc = "done"
  /\ exitStatus = 0
  /\ Len(invocations) >= 2
  /\ invocations[1].status = "failed"
  /\ invocations[Len(invocations)].status = "failed"
  /\ AllSlotsHandled

\* ---------------------------------------------------------------- C9
\* C9 as stated: when the converter failed for a job, the log of the run holds a
\* record about that job that a job converted without failure does not get.
C9_FailureRecorded ==
  \A k \in DOMAIN invocations :
    invocations[k].status = "failed" =>
      \E j \in RecordsAt(invocations[k].at) : log[j].msg # "Running dcm2bids for"

\* ---------------------------------------------------------------- C10
\* C10 as stated: a complete run that follows an interrupted one converts no job
\* that had been converted to its end before, and converts exactly the other jobs
\* that have a source folder.
C10_SafeRestart ==
  (pc = "done" /\ prevRun.ended = "interrupted") =>
    \A at \in KeptSlots :
      SourceOf(at) \in fs =>
        /\ DestOf(at) \in prevRun.completed =>
             /\ InvocationsAt(at) = {}
             /\ Reported(at, "already exists in")
             /\ DestOf(at) \in fs
        /\ DestOf(at) \notin prevRun.completed => DestOf(at) \in Launched(invocations)

\* ---------------------------------------------------------------- C13
\* the session code a record is about: the code it names, or the code in the name
\* of the source folder it names
RecordCode(rec) ==
  IF rec.subject # <<>> THEN rec.subject
  ELSE LET name == rec.path[Len(rec.path)] IN SubSeq(name, 5, Len(name))

\* the records of a run are about the slots in their order, none left out, and
\* its invocations follow the order of the slots
InSlotOrder ==
  /\ \A k \in DOMAIN log : k > 1 => SlotNo(log[k].at) = k - 1
  /\ \A k \in DOMAIN invocations :
       k > 1 => SlotNo(invocations[k - 1].at) < SlotNo(invocations[k].at)

\* C13: the slots are examined in roster row order and, within a row, the slot of
\* 'MR B1' before the slot of 'MR B2'; when the slot of 'MR B2' is examined, the
\* slot of 'MR B1' of its row has its record and, if it was converted, its
\* conversion has ended.
C13_SlotOrder ==
  [](/\ InSlotOrder
     /\ \A k \in DOMAIN log :
          log[k].at # << 0, 0 >> =>
            RecordCode(log[k]) = ClaimCode(roster[log[k].at[1]], log[k].at[2])
     /\ \A i \in KeptRows :
          (RecordsAt(<< i, 2 >>) # {} \/ (pc = "converting" /\ CurAt = << i, 2 >>)) =>
            /\ RecordsAt(<< i, 1 >>) # {}
            /\ Reported(<< i, 1 >>, "Running dcm2bids for") => InvocationsAt(<< i, 1 >>) # {}
     /\ pc = "converting" => \A k \in DOMAIN invocations : SlotNo(invocations[k].at) < Position)

\* Witness of C13: two kept rows with two different codes each, session 1 of the
\* first converted, the conversion of session 2 of the second row running.
C13_Witness ==
  /\ pc = "converting"
  /\ idx = 2 /\ slot = 2
  /\ CurRow.b1 # CurRow.b2
  /\ InvocationsAt(<< subject_df[1], 1 >>) # {}
  /\ RecordsAt(<< subject_df[1], 2 >>) # {}
  /\ RecordsAt(<< subject_df[2], 1 >>) # {}

\* ---------------------------------------------------------------- C14
OutcomeKinds == {"Running dcm2bids for", "already exists in", "does not exist in"}

IsPrefix(p, q) == Len(p) <= Len(q) /\ SubSeq(q, 1, Len(p)) = p

\* every record after the count is one outcome of one slot of a kept row, no slot
\* has two, the file holds the same outcome records, and a complete run has one
\* for every slot
OneOutcomePerSlot ==
  /\ \A k \in DOMAIN log :
       k > 1 => log[k].msg \in OutcomeKinds /\ log[k].at \in KeptSlots
  /\ \A at \in KeptSlots : Cardinality(RecordsAt(at)) <= 1
  /\ pc # "idle" => logFile = SubSeq(log, 2, Len(log))
  /\ pc = "done" => AllSlotsHandled

\* while a run is under way, a step only adds records at the end
OnlyAppended ==
  pc \in {"examine", "converting"} => IsPrefix(log, log') /\ IsPrefix(logFile, logFile')

\* C14: in every run each slot of each kept row gets exactly one outcome record, of
\* exactly one of the kinds Executed, Skipped and MissingSource, and records are
\* only ever appended during the run.
C14_LogComplete == []OneOutcomePerSlot /\ [][OnlyAppended]_vars

\* Witness of C14: a complete run whose log holds the three kinds of outcome.
C14_Witness ==
  /\ pc = "done"
  /\ \A m \in OutcomeKinds : \E k \in DOMAIN logFile : logFile[k].msg = m
  /\ AllSlotsHandled

\* ---------------------------------------------------------------- C15
\* C15 as stated: the log of a complete run ends with a summary record that comes
\* after the last outcome record.
C15_FinalSummary ==
  pc = "done" =>
    /\ Len(log) > 1
    /\ Last(log).at = << 0, 0 >>
    /\ Last(log).msg \notin OutcomeKinds

\* ---------------------------------------------------------------- C16
\* C16 as stated: whatever the working directory, the log file of the BIDS folder
\* holds no record of an earlier run once a run has started writing to it.
C16_LogReset == pc \in {"examine", "converting", "done"} => ~staleLog

\* ---------------------------------------------------------------- C17
\* a column the driver asks for is absent from the header of the sheet
ColumnAbsent ==
  \E c \in {"FUP MR mereni B provedeno (ano/ne)", "MR B1", "MR B2"} : c \notin columns

\* C17: when a requested column is absent, every run aborts with an error status
\* and no run ever plans a job, writes a record, invokes the converter, creates or
\* removes the log file or changes any other path.
C17_MissingColumnFatal ==
  ColumnAbsent =>
    /\ pc \in {"idle", "aborted"}
    /\ pc = "aborted" => exitStatus = 1
    /\ subject_df = <<>>
    /\ log = <<>> /\ logFile = <<>>
    /\ invocations = <<>> /\ command = <<>>
    /\ bids_folder \o << fname_log >> \notin fs
    /\ fs = startFs

\* Witness of C17: a run over a sheet without the column 'MR B2' that has rows
\* flagged 'ano' has aborted.
C17_Witness ==
  /\ pc = "aborted"
  /\ "MR B2" \notin columns
  /\ "MR B1" \in columns
  /\ KeptRows # {}

\* ---------------------------------------------------------------- C12
\* the conversions of the current run, ended or under way, in the order they were
\* started, as pairs of the slot and the folder the converter was directed to
Directed ==
  [k \in DOMAIN invocations |->
     << invocations[k].at, ConverterOutput(invocations[k].command) >>]
    \o (IF pc = "converting" THEN << << CurAt, ConverterOutput(command) >> >> ELSE <<>>)

\* the jobs of a run that has ended, at its end or by being killed: the slots it
\* has examined
JobsOfRun ==
  IF pc \in {"done", "interrupted"} THEN { log[k].at : k \in 2..Len(log) } ELSE {}

\* two slots name the same composite id and the same session code
SameIdentity(a, b) ==
  /\ ClaimParticipant(roster[a[1]]) = ClaimParticipant(roster[b[1]])
  /\ ClaimCode(roster[a[1]], a[2]) = ClaimCode(roster[b[1]], b[2])

\* C12 as stated: no two distinct jobs of a run have the same destination path,
\* and no two conversions of a run are directed to the same folder.
C12_Original ==
  LET d == Directed
  IN  /\ \A a, b \in JobsOfRun : a # b => DestOf(a) # DestOf(b)
      /\ \A k, j \in DOMAIN d : k < j => d[k][2] # d[j][2]

\* C12 as amended: two distinct jobs of a run that differ in composite id or in
\* session code never have the same destination path, and the converter is never
\* directed to the same folder for two such jobs; the folder it is directed to is
\* the destination path of the job.
C12_DisjointDestinations ==
  [](LET d == Directed
     IN  /\ \A a, b \in JobsOfRun : ~SameIdentity(a, b) => DestOf(a) # DestOf(b)
         /\ \A k, j \in DOMAIN d :
              (k < j /\ ~SameIdentity(d[k][1], d[j][1])) => d[k][2] # d[j][2]
         /\ \A k \in DOMAIN d : d[k][2] = DestOf(d[k][1]))

\* Witness of C12: a run has converted session 1 of two rows that have the same
\* code of session 1 and different composite ids.
C12_Witness ==
  \E x, y \in { Directed[k] : k \in DOMAIN Directed } :
    LET a == x[1]
        b == y[1]
    IN  /\ a[1] # b[1]
        /\ a[2] = 1 /\ b[2] = 1
        /\ roster[a[1]].b1 = roster[b[1]].b1
        /\ ~SameIdentity(a, b)

\* ---------------------------------------------------------------- C11
\* every job taken out of the loop has come to its end
AllJobsDone == DOMAIN phase # {} /\ \A at \in DOMAIN phase : phase[at] = "done"

\* what the loop of main, run in roster order from the same tree, ends with
InRosterOrder == Sequential(roster, JobsInOrder(roster, Filter(roster)), startFs, convertible, {})

\* no two jobs of the roster name the same composite id and session code
DistinctIdentities == \A a, b \in KeptSlots : a # b => ~SameIdentity(a, b)

\* C11 as stated: in whatever order and interleaving the jobs are taken, the
\* converter is started for the same jobs and the destination tree ends the same
\* as in the run in roster order.
C11_Original ==
  AllJobsDone => /\ started = InRosterOrder.started
                 /\ fs = InRosterOrder.fs

\* C11 as amended: in whatever order and interleaving the jobs are taken, the
\* destination tree ends the same as in the run in roster order and the converter
\* is started for the same destinations; it is started for the same jobs when no
\* two jobs of the roster name the same composite id and session code.
C11_OrderIndependent ==
  AllJobsDone =>
    /\ fs = InRosterOrder.fs
    /\ { DestOf(at) : at \in started } = { DestOf(at) : at \in InRosterOrder.started }
    /\ DistinctIdentities => started = InRosterOrder.started

\* Witness of C11: two rows with different subjects and four different jobs, all
\* done; two converters gave their output folder and one gave none.
C11_Witness ==
  /\ AllJobsDone
  /\ DistinctIdentities
  /\ Cardinality(KeptRows) = 2
  /\ Cardinality(started) >= 2
  /\ Cardinality({ at \in started : DestOf(at) \in fs }) >= 2
  /\ \E at \in started : DestOf(at) \notin fs

\* ---------------------------------------------------------------- C18
\* The vocabulary of the parser claims, spelled out from their text.
\* the positions of s where the characters of tok begin
Occurrences(s, tok) ==
  { i \in 1..Len(s) : i + Len(tok) - 1 <= Len(s) /\ \A k \in 1..Len(tok) : s[i + k - 1] = tok[k] }

\* the positions after position i of s that hold an underscore or a slash
DelimitersAfter(s, i) == { j \in (i + 1)..Len(s) : s[j] = "_" \/ s[j] = "/" }

Least(S) == CHOOSE x \in S : \A y \in S : x <= y

\* the field of a token ('sub-' or 'ses-') in s: from its first occurrence up to,
\* and excluding, the next underscore or slash; empty when the token is absent or
\* no underscore or slash follows it
ClaimField(s, tok) ==
  IF Occurrences(s, tok) = {} THEN <<>>
  ELSE LET i == Least(Occurrences(s, tok))
       IN  IF DelimitersAfter(s, i) = {} THEN <<>>
           ELSE << >> \o [k \in 1..(Least(DelimitersAfter(s, i)) - i) |-> s[i + k - 1]]

ClaimSubToken == <<"s", "u", "b", "-">>
ClaimSesToken == <<"s", "e", "s", "-">>

ExampleFilename == <<"s", "u", "b", "-", "A", "B", "C", "D", "E", "_", "s", "e", "s", "-", "1", "2", "3", "4", "5", "_", "T", "1", "w", ".", "n", "i", "i", ".", "g", "z">>

\* C18: fetch_subject_and_session never raises and returns, for each of the two
\* fields, the first occurrence of the token up to and excluding the next
\* underscore or slash, or the empty string when the token is absent or has no
\* underscore or slash after it; 'sub-ABCDE_ses-12345_T1w.nii.gz' gives
\* ('sub-ABCDE', 'ses-12345').
C18_ParserFields ==
  parsed.fn = "fetch_subject_and_session" =>
    /\ ~parsed.raised
    /\ parsed.participant_id = ClaimField(filename_path, ClaimSubToken)
    /\ parsed.session_id = ClaimField(filename_path, ClaimSesToken)
    /\ filename_path = ExampleFilename =>
         /\ parsed.participant_id = <<"s", "u", "b", "-", "A", "B", "C", "D", "E">>
         /\ parsed.session_id = <<"s", "e", "s", "-", "1", "2", "3", "4", "5">>

\* Witness of C18: the parser was called with 'sub-1860B6472B_ses-6472B', whose
\* session token nothing follows: it returned the participant and the empty string.
C18_Witness ==
  /\ parsed.fn = "fetch_subject_and_session"
  /\ filename_path = <<"s", "u", "b", "-", "1", "8", "6", "0", "B", "6", "4", "7", "2", "B", "_", "s", "e", "s", "-", "6", "4", "7", "2", "B">>
  /\ parsed.session_id = <<>>
  /\ parsed.participant_id = <<"s", "u", "b", "-", "1", "8", "6", "0", "B", "6", "4", "7", "2", "B">>

\* ---------------------------------------------------------------- C19
\* C19 as stated: for an input without a session token followed by an underscore
\* or slash, fetch_participant_and_session returns normally, with an empty session
\* result.
C19_FailSoft ==
  (parsed.fn = "fetch_participant_and_session"
     /\ ClaimField(filename_path, ClaimSesToken) = <<>>) =>
    /\ ~parsed.raised
    /\ parsed.session = ""
    /\ parsed.session_id = <<>>

\* ---------------------------------------------------------------- C20
\* five-character codes
FiveCharCodes ==
  { <<"1", "8", "6", "0", "B">>, <<"6", "4", "7", "2", "B">>, <<"1", "2", "3", "4", "5">> }

\* the label the claim gives for participant id 'sub-' + A + B and session id
\* 'ses-' + T; whenBoth is the label for a T that equals both A and B
LabelAsClaimed(whenBoth) ==
  parsed.fn = "fetch_participant_and_session" =>
    \A A, B, T \in FiveCharCodes :
      (/\ parsed.participant_id = ClaimSubToken \o A \o B
       /\ parsed.session_id = ClaimSesToken \o T) =>
        /\ (T = A /\ (T # B \/ whenBoth = "Session 1")) =>
             ~parsed.raised /\ parsed.session = "Session 1"
        /\ (T = B /\ (T # A \/ whenBoth = "Session 2")) =>
             ~parsed.raised /\ parsed.session = "Session 2"

\* C20 as stated: the label is 'Session 1' when T equals A and 'Session 2' when T
\* equals B.
C20_Original ==
  parsed.fn = "fetch_participant_and_session" =>
    \A A, B, T \in FiveCharCodes :
      (/\ parsed.participant_id = ClaimSubToken \o A \o B
       /\ parsed.session_id = ClaimSesToken \o T) =>
        /\ T = A => ~parsed.raised /\ parsed.session = "Session 1"
        /\ T = B => ~parsed.raised /\ parsed.session = "Session 2"

\* C20 as amended: the label is 'Session 1' when T equals A, and 'Session 2' when
\* T equals B and differs from A.
C20_SessionLabel == LabelAsClaimed("Session 1")

\* Witness of C20: the path 'sub-1860B6472B/ses-6472B/T1w.nii.gz' was parsed and
\* labelled 'Session 2'.
C20_Witness ==
  /\ parsed.fn = "fetch_participant_and_session"
  /\ parsed.participant_id = <<"s", "u", "b", "-", "1", "8", "6", "0", "B", "6", "4", "7", "2", "B">>
  /\ parsed.session_id = <<"s", "e", "s", "-", "6", "4", "7", "2", "B">>
  /\ parsed.session = "Session 2"
  /\ ~parsed.raised

\* ---------------------------------------------------------------- C21
\* the raw session token of the parsed path: what follows 'ses-' in the session id
RawSessionToken == [k \in 1..(Len(parsed.session_id) - 4) |-> parsed.session_id[k + 4]]

\* C21: when the participant id is 'sub-' + A + B with five-character codes A and
\* B, and the raw session token equals neither A nor B, the call raises and no
\* session label reaches the caller.
C21_AmbiguousSession ==
  parsed.fn = "fetch_participant_and_session" =>
    \A A, B \in FiveCharCodes :
      (/\ parsed.participant_id = ClaimSubToken \o A \o B
       /\ << >> \o RawSessionToken # A
       /\ << >> \o RawSessionToken # B) =>
        /\ parsed.raised
        /\ parsed.session = ""

\* Witness of C21: 'sub-1860B6472B/ses-12345/T1w.nii.gz' was parsed and the call
\* raised.
C21_Witness ==
  /\ parsed.fn = "fetch_participant_and_session"
  /\ parsed.participant_id = <<"s", "u", "b", "-", "1", "8", "6", "0", "B", "6", "4", "7", "2", "B">>
  /\ parsed.session_id = <<"s", "e", "s", "-", "1", "2", "3", "4", "5">>
  /\ parsed.raised

\* ---------------------------------------------------------------- C22
\* C22: in one run the converter is invoked at most once for each slot of each
\* row, whether the invocation failed or not: a slot has at most one invocation,
\* and none when a conversion for it is under way.
C22_NoRetry ==
  /\ \A k, j \in DOMAIN invocations : invocations[k].at = invocations[j].at => k = j
  /\ pc = "converting" => \A k \in DOMAIN invocations : invocations[k].at # CurAt

\* Witness of C22: a complete run in which the conversion of a slot failed and left
\* no folder, and that slot has its single invocation.
C22_Witness ==
  /\ pc = "done"
  /\ \E k \in DOMAIN invocations :
       /\ invocations[k].status = "failed"
       /\ ConverterOutput(invocations[k].command) \notin fs
       /\ Cardinality(InvocationsAt(invocations[k].at)) = 1

\* ---------------------------------------------------------------- C23
\* the slots whose destination folder existed when the run started without any
\* conversion into it ever having come to a good end: the folder was left by a
\* conversion that failed or was killed
LeftUnfinished == { at \in KeptSlots : DestOf(at) \in startFs /\ DestOf(at) \notin completed }

\* C23: a run never invokes the converter for a slot whose destination folder was
\* left by a conversion that failed or was killed, and a complete run reports the
\* slot as already existing.
C23_DirectoryOnly ==
  [](\A at \in LeftUnfinished :
       /\ \A k \in DOMAIN invocations : invocations[k].at # at
       /\ pc = "converting" => CurAt # at
       /\ pc = "done" =>
            \A k \in DOMAIN log : log[k].at = at => log[k].msg = "already exists in"
       /\ pc = "done" => \E k \in DOMAIN log : log[k].at = at)

\* Witness of C23: a complete run after a run that was killed while it converted;
\* the folder the killed conversion left is reported as already existing.
C23_Witness ==
  /\ pc = "done"
  /\ prevRun.ended = "interrupted"
  /\ \E at \in LeftUnfinished : Reported(at, "already exists in") /\ InvocationsAt(at) = {}

\* ---------------------------------------------------------------- C24
\* C24: a complete run that follows a complete run all of whose conversions gave
\* their destination folder is a fixed point: it invokes no converter and reports
\* every slot that has a source folder as already existing; and so does every
\* complete run after a complete run that invoked none.
C24_Convergence ==
  (/\ pc = "done"
   /\ prevRun.ended = "done"
   /\ \A d \in prevRun.launched : d \in startFs) =>
    /\ invocations = <<>>
    /\ \A k \in DOMAIN log :
         (k > 1 /\ SourceOf(log[k].at) \in fs) => log[k].msg = "already exists in"
    /\ Len(log) = 1 + 2 * Cardinality(KeptRows)

\* Witness of C24: a complete run without conversion after a complete run that
\* converted two sessions.
C24_Witness ==
  /\ pc = "done"
  /\ prevRun.ended = "done"
  /\ Cardinality(prevRun.launched) = 2
  /\ prevRun.launched \subseteq startFs
  /\ invocations = <<>>
  /\ CountRecords({"already exists in"}) >= 2

\* ---------------------------------------------------------------- C25
\* the paths of a file system in the source tree, and the log files
InSourceTree(f) ==
  { p \in f : Len(p) >= Len(dicom_folder_path)
              /\ \A k \in 1..Len(dicom_folder_path) : p[k] = dicom_folder_path[k] }
IsLogFile(p) == p[Len(p)] = fname_log

\* a step of the driver leaves the source tree as it is; it changes the other paths
\* only while the converter runs, by what the converter makes in its output
\* folder, or by the log file; a step that reports a slot as already existing or
\* as without source changes no path
FrameOfStep ==
  /\ InSourceTree(fs') = InSourceTree(fs)
  /\ fs' # fs =>
       \/ /\ pc = "converting"
          /\ fs \subseteq fs'
          /\ \A p \in fs' \ fs : p \in WithParents(bids_folder \o
                                   << ArgParticipant(command), ArgSession(command) >>)
       \/ /\ pc # "converting"
          /\ \A p \in (fs' \ fs) \cup (fs \ fs') : IsLogFile(p)
  /\ (log' # log /\ Len(log') > 1
        /\ Last(log').msg \in {"already exists in", "does not exist in"}) => fs' = fs

ClaimFigureName(subject) == SubSeq(subject, 5, Len(subject)) \o <<"_", "T", "2", "w", "_", "l", "i", "n", "e", "p", "l", "o", "t", "_", "P", "A", "M", "5", "0", ".", "p", "n", "g">>

\* the figure in the output folder chosen for the subject of a subprocess call
ClaimFigureOf(call) == Append(call.path_out, ClaimFigureName(call.subject))

\* C26 as stated: the figure-generation subprocess is never invoked for a subject,
\* with or without surgery, whose figure an earlier run has already generated into
\* the output folder chosen for that subject.
C26_FigureLoopSkip ==
  \A k \in DOMAIN calls : ClaimFigureOf(calls[k]) \notin earlier

\* ---------------------------------------------------------------- C27
\* C27 as stated: within one run the figure-generation subprocess is invoked at most
\* once per subject, and never for a subject of the exclusion list.
C27_OncePerSubject ==
  /\ \A j \in DOMAIN calls : \A k \in DOMAIN calls :
       j < k => calls[j].subject # calls[k].subject
  /\ \A k \in DOMAIN calls : calls[k].subject \notin args.exclude_list

\* ---------------------------------------------------------------- C28
\* the folders of the disc, in the order of the claim
ClaimFolders ==
  << <<"D", "C", "M", "-", "P", "R", "O">>,
     <<"D", "C", "M", "-", "P", "R", "O", "_", "l", "o", "n", "g", "i", "t", "u", "d", "i", "n", "a", "l">>,
     <<"D", "C", "M", "-", "P", "R", "O", "_", "N", "O", "L", "O", "S", "T">>,
     <<"D", "C", "M", "-", "P", "R", "O", "_", "N", "O", "L", "O", "S", "T", "_", "2", "0", "2", "4", "-", "0", "2", "-", "0", "8">> >>

\* /md3/<folder>/dicom/sub-<code> and /md3/dcm-brno/sourcedata/sub-<code>
ClaimDicomIn(j, code) == << <<"m", "d", "3">>, ClaimFolders[j], <<"d", "i", "c", "o", "m">>, <<"s", "u", "b", "-">> \o code >>
ClaimCopyOf(code) == << <<"m", "d", "3">>, <<"d", "c", "m", "-", "b", "r", "n", "o">>, <<"s", "o", "u", "r", "c", "e", "d", "a", "t", "a">>, <<"s", "u", "b", "-">> \o code >>

\* the subject codes of the filtered roster
ClaimSubjectCodes ==
  { c \in { roster[i].b1 : i \in { n \in DOMAIN roster : roster[n].flag = "ano" } }
            \cup { roster[i].b2 : i \in { n \in DOMAIN roster : roster[n].flag = "ano" } } :
      c # <<>> }

\* the subjects an ERROR record of the run names
ClaimErrors ==
  { records[k].text :
      k \in { n \in DOMAIN records :
               records[n].msg = "ERROR: was not copied to dcm-brno/sourcedata." } }

\* C28: in a run of the copy utility every copy is of a subject code of the
\* filtered roster, from the first folder in FOLDERS order that contains it, into a
\* destination that did not exist when the run started, and no subject is copied
\* twice; once the copy loop has ended, the ERROR records name exactly the subjects
\* whose destination does not exist.
C28_CopyOnce ==
  /\ \A k \in DOMAIN calls :
       /\ \E code \in ClaimSubjectCodes :
            /\ calls[k].dst = ClaimCopyOf(code)
            /\ \E j \in DOMAIN ClaimFolders :
                 /\ calls[k].src = ClaimDicomIn(j, code)
                 /\ ClaimDicomIn(j, code) \in startFs
                 /\ \A i \in 1..(j - 1) : ClaimDicomIn(i, code) \notin startFs
       /\ calls[k].dst \notin startFs
       /\ \A j \in 1..(k - 1) : calls[j].dst # calls[k].dst
  /\ \A code \in ClaimSubjectCodes :
       ClaimCopyOf(code) \in startFs => ClaimCopyOf(code) \in fs
  /\ stage = "done" =>
       ClaimErrors = { code \in ClaimSubjectCodes : ClaimCopyOf(code) \notin fs }

\* C28 witness: a finished run that copied the first code from the second folder,
\* although the last folder holds it too, and logged an ERROR for the second code
C28_Witness ==
  /\ stage = "done"
  /\ Len(calls) = 1
  /\ calls[1].src = ClaimDicomIn(2, <<"1", "A">>)
  /\ ClaimDicomIn(4, <<"1", "A">>) \in fs
  /\ ClaimCopyOf(<<"1", "A">>) \in fs
  /\ ClaimErrors = { <<"2", "B">> }

\* ---------------------------------------------------------------- C29
\* the value a JSON text gives a key: that of the last member with the key
ClaimHasKey(members, key) == \E i \in DOMAIN members : members[i].key = key
ClaimValueOf(members, key) ==
  LET at == { i \in DOMAIN members : members[i].key = key }
  IN  members[CHOOSE i \in at : \A j \in at : j <= i].value

\* the key asked for with -key is absent from the YAML file
ClaimKeyAbsent == args.yml_file.none \/ args.key \notin DOMAIN args.yml_file.map

\* C29: after a successful run the JSON config gives the key named by -mode the
\* YAML list under -key and gives every other key what it gave it before the run,
\* and the file a second run leaves is the file the first run left; when the key is
\* absent from the YAML file the run raises and leaves the JSON config as it was.
C29_ConfigUpdate ==
  /\ stage = "done" =>
       /\ ClaimHasKey(json_file.members, args.mode)
       /\ ClaimValueOf(json_file.members, args.mode) = args.yml_file.map[args.key]
       /\ \A k \in {"jobs", "exclude_list", "include_list"} \ { args.mode } :
            /\ ClaimHasKey(json_file.members, k) <=> ClaimHasKey(earlier.before.members, k)
            /\ ClaimHasKey(json_file.members, k) =>
                 ClaimValueOf(json_file.members, k) = ClaimValueOf(earlier.before.members, k)
       /\ json_file.exists
       /\ passes >= 2 => json_file = earlier.once
  /\ (passes > 0 /\ ClaimKeyAbsent) =>
       /\ stage = "raised"
       /\ json_file = earlier.before

\* C29 witness: the second of two successful runs on a hand-written config that
\* held 'jobs' and another list under the key named by -mode
C29_Witness ==
  /\ stage = "done"
  /\ passes = 2
  /\ args.mode = "exclude_list"
  /\ json_file.members =
       << [key |-> "jobs", value |-> [type |-> "number", items |-> << "8" >>]],
          [key |-> "exclude_list",
           value |-> [type |-> "array", items |-> << "sub-002", "sub-003" >>]] >>
  /\ json_file.indent = 4
  /\ earlier.once = json_file

====
